---- MODULE Spec2Model ----
(***************************************************************************)
(* A model of allay.Parser (src/allay/parser.py) and of the JSON literal   *)
(* reader (src/allay/json_parser.py).                                      *)
(*                                                                         *)
(* The tokenstream library is an external collaborator: a source text is   *)
(* given to the model as the sequence of tokens the lexer produces for it  *)
(* in the grammar context of each position, a token being a record         *)
(* [k |-> kind, v |-> value].  Free-form strings (text runs, string        *)
(* literals, urls) are tuples of one-character strings, so that strip,     *)
(* replace and the serialize/re-parse round trip of the template           *)
(* substitution are computed character by character; words of a fixed     *)
(* vocabulary (keywords, colours, names, JSON keys) are TLA+ strings.      *)
(*                                                                         *)
(* JSON values are tagged records [t |-> tag, v |-> payload]:              *)
(*   "str"  a tuple of characters        "atom" a word of the vocabulary   *)
(*   "bool" a boolean                    "num"  a natural number           *)
(*   "obj"  a function from keys to JSON values                            *)
(*   "arr"  a sequence of JSON values                                      *)
(***************************************************************************)
EXTENDS Integers, Sequences, FiniteSets, TLC

\* self.method(...): every call of a method of the parser, and of json.dumps
\* and json.loads, is made by name; a holds the arguments
RECURSIVE Method(_, _)

\* ------------------------------------------------------------------------
\* Values
\* ------------------------------------------------------------------------
JS(s) == [t |-> "str", v |-> s]
JAtom(a) == [t |-> "atom", v |-> a]
JB(b) == [t |-> "bool", v |-> b]
JN(n) == [t |-> "num", v |-> n]
JO(f) == [t |-> "obj", v |-> f]
JA(a) == [t |-> "arr", v |-> a]

\* the empty Python dict {} / the empty Python string ""
EmptyDict == [k \in {} |-> JB(TRUE)]
EmptyStr == JS(<< >>)

\* a merge in which the keys of a win
DictMergeFirst(a, b) == a @@ b

\* Python's a | b on dicts: the keys of b win.
DictMerge(a, b) == b @@ a

\* Python None for an int-valued option, and for a bool-valued option.
NoneInt == -1
NoneBool == "None"

\* Exceptions.  NoErr stands for normal completion.
NoErr == [cls |-> "none", msg |-> "", decorated |-> FALSE]
Err(c, m) == [cls |-> c, msg |-> m, decorated |-> FALSE]
InvalidSyntax(m) == Err("InvalidSyntax", m)
DefinitionAlreadyExists == Err("DefinitionAlreadyExists", "has already been defined")

\* The error kinds of the specification, read off the exception raised.
ErrorKind(e) ==
  IF e.cls = "none" THEN "none"
  ELSE IF e.cls = "DefinitionAlreadyExists" THEN "DefinitionConflict"
  ELSE IF e.cls = "InvalidSyntax" THEN
         IF e.msg \in {"Unknown pattern", "Unknown template"} THEN "UnknownDefinition"
         ELSE IF e.msg = "Unexpected scope" THEN "ScopeViolation"
         ELSE "SyntaxError"
  ELSE "Internal"

\* ------------------------------------------------------------------------
\* Strings as tuples of characters
\* ------------------------------------------------------------------------
RECURSIVE StrReplace(_, _, _)
\* str.replace(old, new): leftmost, non-overlapping occurrences.
StrReplace(s, old, new) ==
  IF Len(s) < Len(old) THEN s
  ELSE IF SubSeq(s, 1, Len(old)) = old
       THEN new \o StrReplace(SubSeq(s, Len(old) + 1, Len(s)), old, new)
       ELSE <<Head(s)>> \o StrReplace(Tail(s), old, new)

StartsWith(s, p) == Len(s) >= Len(p) /\ SubSeq(s, 1, Len(p)) = p

Whitespace == {" ", "\n", "\t"}

RECURSIVE LStrip(_)
LStrip(s) == IF s # << >> /\ Head(s) \in Whitespace THEN LStrip(Tail(s)) ELSE s

RECURSIVE RStrip(_)
RStrip(s) ==
  IF s # << >> /\ s[Len(s)] \in Whitespace THEN RStrip(SubSeq(s, 1, Len(s) - 1)) ELSE s

DigitChars == <<"0", "1", "2", "3", "4", "5", "6", "7", "8", "9">>

IsDigit(c) == \E i \in 1..10 : DigitChars[i] = c
DigitVal(c) == (CHOOSE i \in 1..10 : DigitChars[i] = c) - 1

RECURSIVE IntToStr(_)
\* str(n) for a natural number n
IntToStr(n) ==
  IF n < 10 THEN <<DigitChars[n + 1]>>
  ELSE IntToStr(n \div 10) \o <<DigitChars[(n % 10) + 1]>>

RECURSIVE StrToInt(_, _)
\* int(s) for a tuple of digits, acc the value of the digits read so far
StrToInt(s, acc) ==
  IF s = << >> THEN acc ELSE StrToInt(Tail(s), 10 * acc + DigitVal(Head(s)))

\* ------------------------------------------------------------------------
\* json.dumps / json.loads over a text of symbols.  A symbol is a character
\* (a one-character string) or a whole word of the fixed vocabulary (a key,
\* an action name, a colour, true, false); a word always stands alone
\* between its quotes and never contains a placeholder.
\* ------------------------------------------------------------------------
IsChar(c) == Len(c) = 1

RECURSIVE EscapeStr(_)
\* the body of a JSON string literal for a tuple of characters
EscapeStr(s) ==
  IF s = << >> THEN << >>
  ELSE LET c == Head(s)
           e == IF c = "\"" THEN <<"\\", "\"">>
                ELSE IF c = "\\" THEN <<"\\", "\\">>
                ELSE IF c = "\n" THEN <<"\\", "n">>
                ELSE IF c = "\t" THEN <<"\\", "t">>
                ELSE <<c>>
       IN e \o EscapeStr(Tail(s))

RECURSIVE DumpsArr(_)
RECURSIVE DumpsObj(_, _)

DumpsArr(a) ==
  IF a = << >> THEN << >>
  ELSE Method("dumps", <<Head(a)>>) \o (IF Len(a) > 1 THEN <<",", " ">> ELSE << >>) \o DumpsArr(Tail(a))

DumpsObj(f, keys) ==
  IF keys = {} THEN << >>
  ELSE LET k == CHOOSE x \in keys : TRUE
       IN <<"\"", k, "\"", ":", " ">> \o Method("dumps", <<f[k]>>)
          \o (IF keys # {k} THEN <<",", " ">> ELSE << >>)
          \o DumpsObj(f, keys \ {k})

\* json.dumps(value) with the default separators
dumps(j) ==
  CASE j.t = "str"  -> <<"\"">> \o EscapeStr(j.v) \o <<"\"">>
    [] j.t = "atom" -> <<"\"", j.v, "\"">>
    [] j.t = "bool" -> IF j.v THEN <<"true">> ELSE <<"false">>
    [] j.t = "num"  -> IntToStr(j.v)
    [] j.t = "arr"  -> <<"[">> \o DumpsArr(j.v) \o <<"]">>
    [] j.t = "obj"  -> <<"{">> \o DumpsObj(j.v, DOMAIN j.v) \o <<"}">>

JSONDecodeError == Err("JSONDecodeError", "json.loads")

LFail(pos) == [ok |-> FALSE, val |-> EmptyStr, pos |-> pos]
LOk(v, pos) == [ok |-> TRUE, val |-> v, pos |-> pos]

Sym(s, pos) == IF pos <= Len(s) THEN s[pos] ELSE "<eof>"

RECURSIVE SkipWs(_, _)
SkipWs(s, pos) == IF Sym(s, pos) \in Whitespace THEN SkipWs(s, pos + 1) ELSE pos

RECURSIVE LoadsChars(_, _, _)
\* the characters of a string literal up to its closing quote; pos is after
\* the opening quote.  Raw control characters and unknown escapes are errors.
LoadsChars(s, pos, acc) ==
  LET c == Sym(s, pos) IN
  IF c = "\"" THEN LOk(acc, pos + 1)
  ELSE IF c = "<eof>" \/ ~IsChar(c) \/ c \in {"\n", "\t"} THEN LFail(pos)
  ELSE IF c = "\\" THEN
         LET d == Sym(s, pos + 1) IN
         IF d \in {"\"", "\\", "/"} THEN LoadsChars(s, pos + 2, Append(acc, d))
         ELSE IF d = "n" THEN LoadsChars(s, pos + 2, Append(acc, "\n"))
         ELSE IF d = "t" THEN LoadsChars(s, pos + 2, Append(acc, "\t"))
         ELSE LFail(pos)
  ELSE LoadsChars(s, pos + 1, Append(acc, c))

RECURSIVE LoadsDigits(_, _, _)
LoadsDigits(s, pos, acc) ==
  IF IsDigit(Sym(s, pos)) THEN LoadsDigits(s, pos + 1, 10 * acc + DigitVal(Sym(s, pos)))
  ELSE LOk(JN(acc), pos)

RECURSIVE LoadsValue(_, _)
RECURSIVE LoadsArr(_, _, _)
RECURSIVE LoadsObj(_, _, _)

\* the elements of an array; pos is at the first symbol of an element
LoadsArr(s, pos, acc) ==
  LET r == LoadsValue(s, pos) IN
  IF ~r.ok THEN r
  ELSE LET p == SkipWs(s, r.pos) IN
       IF Sym(s, p) = "," THEN LoadsArr(s, SkipWs(s, p + 1), Append(acc, r.val))
       ELSE IF Sym(s, p) = "]" THEN LOk(JA(Append(acc, r.val)), p + 1)
       ELSE LFail(p)

\* the members of an object; pos is at the opening quote of a key.  A key is
\* a word of the vocabulary.
LoadsObj(s, pos, acc) ==
  IF ~(Sym(s, pos) = "\"" /\ ~IsChar(Sym(s, pos + 1)) /\ Sym(s, pos + 1) # "<eof>"
       /\ Sym(s, pos + 2) = "\"")
  THEN LFail(pos)
  ELSE LET k == Sym(s, pos + 1)
           p1 == SkipWs(s, pos + 3)
       IN IF Sym(s, p1) # ":" THEN LFail(p1)
          ELSE LET r == LoadsValue(s, SkipWs(s, p1 + 1)) IN
               IF ~r.ok THEN r
               ELSE LET p2 == SkipWs(s, r.pos)
                        acc2 == (k :> r.val) @@ acc
                    IN IF Sym(s, p2) = "," THEN LoadsObj(s, SkipWs(s, p2 + 1), acc2)
                       ELSE IF Sym(s, p2) = "}" THEN LOk(JO(acc2), p2 + 1)
                       ELSE LFail(p2)

LoadsValue(s, pos) ==
  LET c == Sym(s, pos) IN
  IF c = "\"" THEN
       IF Sym(s, pos + 1) # "<eof>" /\ ~IsChar(Sym(s, pos + 1))
       THEN IF Sym(s, pos + 2) = "\"" THEN LOk(JAtom(Sym(s, pos + 1)), pos + 3)
            ELSE LFail(pos + 2)
       ELSE LET r == LoadsChars(s, pos + 1, << >>) IN
            IF r.ok THEN LOk(JS(r.val), r.pos) ELSE r
  ELSE IF c = "[" THEN
       LET p == SkipWs(s, pos + 1) IN
       IF Sym(s, p) = "]" THEN LOk(JA(<< >>), p + 1) ELSE LoadsArr(s, p, << >>)
  ELSE IF c = "{" THEN
       LET p == SkipWs(s, pos + 1) IN
       IF Sym(s, p) = "}" THEN LOk(JO(EmptyDict), p + 1) ELSE LoadsObj(s, p, EmptyDict)
  ELSE IF c = "true" THEN LOk(JB(TRUE), pos + 1)
  ELSE IF c = "false" THEN LOk(JB(FALSE), pos + 1)
  ELSE IF IsDigit(c) THEN LoadsDigits(s, pos, 0)
  ELSE LFail(pos)

\* json.loads(text): one value, nothing but whitespace around it
loads(s) ==
  LET r == LoadsValue(s, SkipWs(s, 1)) IN
  IF r.ok /\ SkipWs(s, r.pos) = Len(s) + 1
  THEN [err |-> NoErr, val |-> r.val]
  ELSE [err |-> JSONDecodeError, val |-> EmptyStr]

\* ------------------------------------------------------------------------
\* The token stream.  Tok is the token at a position, EOFTok past the end.
\* expect(kind) consumes the next token or raises InvalidSyntax; get(kind)
\* consumes it only if it matches.
\* ------------------------------------------------------------------------
EOFTok == [k |-> "eof", v |-> ""]
Tok(toks, pos) == IF pos <= Len(toks) THEN toks[pos] ELSE EOFTok
Is(tok, k, v) == tok.k = k /\ tok.v = v

Unexpected == InvalidSyntax("Expected token")

\* Results of the parsing functions: the exception raised (or NoErr), the
\* value returned, the cursor, and self.parent as the call leaves it.
Ok(v, pos, parent) == [err |-> NoErr, val |-> v, pos |-> pos, parent |-> parent]
Fail(e, pos, parent) == [err |-> e, val |-> EmptyDict, pos |-> pos, parent |-> parent]

RECURSIVE StrJoin(_)
StrJoin(s) == IF s = << >> THEN "" ELSE Head(s) \o StrJoin(Tail(s))

\* Parser.get_string applied to a string token (v holds the characters
\* between the quotes)
get_string(tok) == StrReplace(tok.v, <<"\\", "\"">>, <<"\"">>)

RECURSIVE unquote_string(_)
\* json_parser.unquote_string: every backslash pair is looked up in
\* ESCAPE_SEQUENCES, a missing pair is a KeyError.
unquote_string(s) ==
  IF s = << >> THEN [err |-> NoErr, val |-> << >>]
  ELSE IF Head(s) = "\\" /\ Len(s) >= 2 THEN
         LET d == s[2]
             rest == unquote_string(SubSeq(s, 3, Len(s)))
         IN IF d \notin {"n", "\"", "\\"} THEN [err |-> Err("KeyError", "ESCAPE_SEQUENCES"), val |-> << >>]
            ELSE IF rest.err # NoErr THEN rest
            ELSE [err |-> NoErr,
                  val |-> <<IF d = "n" THEN "\n" ELSE d>> \o rest.val]
  ELSE LET rest == unquote_string(Tail(s)) IN
       IF rest.err # NoErr THEN rest
       ELSE [err |-> NoErr, val |-> <<Head(s)>> \o rest.val]


\* the loop over stream.collect("string") of an object
ParseJsonMembers(toks, pos, acc) ==
  IF Tok(toks, pos).k # "string"
  THEN IF Is(Tok(toks, pos), "curly", "}") THEN Ok(JO(acc), pos + 1, EmptyStr)
       ELSE Fail(Unexpected, pos, EmptyStr)
  ELSE IF Tok(toks, pos + 1).k # "colon" THEN Fail(Unexpected, pos + 1, EmptyStr)
  ELSE LET r == Method("parse_json", <<toks, pos + 2>>)
           key == unquote_string(Tok(toks, pos).v)
       IN IF r.err # NoErr THEN r
          ELSE IF key.err # NoErr THEN Fail(key.err, r.pos, EmptyStr)
          ELSE LET acc2 == (StrJoin(key.val) :> r.val) @@ acc IN
               IF Tok(toks, r.pos).k = "comma"
               THEN Method("ParseJsonMembers", <<toks, r.pos + 1, acc2>>)
               ELSE IF Is(Tok(toks, r.pos), "curly", "}") THEN Ok(JO(acc2), r.pos + 1, EmptyStr)
               ELSE Fail(Unexpected, r.pos, EmptyStr)

\* the loop over stream.collect("comma") of an array
ParseJsonElements(toks, pos, acc) ==
  IF Tok(toks, pos).k = "comma"
  THEN LET r == Method("parse_json", <<toks, pos + 1>>) IN
       IF r.err # NoErr THEN r ELSE Method("ParseJsonElements", <<toks, r.pos, Append(acc, r.val)>>)
  ELSE IF Is(Tok(toks, pos), "bracket", "]") THEN Ok(JA(acc), pos + 1, EmptyStr)
  ELSE Fail(Unexpected, pos, EmptyStr)

parse_json(toks, pos) ==
  LET tok == Tok(toks, pos) IN
  IF Is(tok, "curly", "{") THEN Method("ParseJsonMembers", <<toks, pos + 1, EmptyDict>>)
  ELSE IF Is(tok, "bracket", "[") THEN
       IF Is(Tok(toks, pos + 1), "bracket", "]") THEN Ok(JA(<< >>), pos + 2, EmptyStr)
       ELSE LET r == Method("parse_json", <<toks, pos + 1>>) IN
            IF r.err # NoErr THEN r ELSE Method("ParseJsonElements", <<toks, r.pos, <<r.val>>>>)
  ELSE IF tok.k = "string" THEN
       LET u == unquote_string(tok.v) IN
       IF u.err # NoErr THEN Fail(u.err, pos + 1, EmptyStr) ELSE Ok(JS(u.val), pos + 1, EmptyStr)
  ELSE IF tok.k = "number" THEN Ok(JN(StrToInt(tok.v, 0)), pos + 1, EmptyStr)
  \* bool(boolean.value): the truth value of a non-empty string
  ELSE IF tok.k = "boolean" THEN Ok(JB(tok.v # ""), pos + 1, EmptyStr)
  ELSE Fail(Unexpected, pos, EmptyStr)

\* ------------------------------------------------------------------------
\* The markup grammar.  env is the part of the parser the grammar reads:
\* [patterns, templates, parent, scoped], scoped being stream.data["scoped"].
\* ------------------------------------------------------------------------
SpecialEscapes == {"b", "f", "n", "r", "t", "\\", "[", "]", "(", ")", "{", "}", "<", ">"}

ClickEvent(action, value) ==
  "clickEvent" :> JO("action" :> JAtom(action) @@ "value" :> JS(value))

\* Parser.clean_ast: adjacent strings are merged
RECURSIVE CleanFrom(_, _)
CleanFrom(cleaned, rest) ==
  IF rest = << >> THEN cleaned
  ELSE LET elem == Head(rest)
           last == cleaned[Len(cleaned)]
       IN IF elem.t = "str" /\ last.t = "str"
          THEN CleanFrom([cleaned EXCEPT ![Len(cleaned)] = [t |-> "str", v |-> last.v \o elem.v]],
                         Tail(rest))
          ELSE CleanFrom(Append(cleaned, elem), Tail(rest))

\* a clean_ast that leaves the strings apart
clean_ast_apart(ast) == ast

clean_ast(ast) ==
  IF ast = << >> THEN << >> ELSE CleanFrom(<<Head(ast)>>, Tail(ast))

\* Parser.convert_ast_to_json for one item of the AST
ConvertItem(item) ==
  IF item.t = "str" THEN [err |-> NoErr, val |-> JO("text" :> JS(item.v))]
  ELSE IF item.t = "span" THEN
       LET mt == item.modified_text IN
       IF Len(mt) < 2 THEN [err |-> Err("IndexError", "modified_text[1]"), val |-> EmptyStr]
       ELSE IF mt[2].t # "obj" THEN [err |-> Err("TypeError", "modified_text[1][text]"), val |-> EmptyStr]
       ELSE IF "text" \notin DOMAIN mt[2].v THEN [err |-> Err("KeyError", "text"), val |-> EmptyStr]
       ELSE [err |-> NoErr,
             val |-> JO(DictMerge("text" :> mt[2].v["text"], item.modifier_contents))]
  ELSE [err |-> NoErr, val |-> item.v]

RECURSIVE ConvertFrom(_, _)
ConvertFrom(output, ast) ==
  IF ast = << >> THEN [err |-> NoErr, val |-> output]
  ELSE LET c == ConvertItem(Head(ast)) IN
       IF c.err # NoErr THEN [err |-> c.err, val |-> output]
       ELSE ConvertFrom(Append(output, c.val), Tail(ast))

\* self.parent or ""
ParentOrEmpty(parent) ==
  IF parent.t = "obj" /\ DOMAIN parent.v # {} THEN parent ELSE EmptyStr

convert_ast_to_json(ast, parent) == ConvertFrom(<<ParentOrEmpty(parent)>>, ast)

\* the loop of parse_standalone over enumerate(args), from index on
SubstituteArgs(template_value, args, index) ==
  IF args = << >> THEN template_value
  ELSE Method("SubstituteArgs", <<StrReplace(template_value, <<"%">> \o IntToStr(index), Head(args)),
                      Tail(args), index + 1>>)

parse_template_args(toks, pos) ==
  IF Tok(toks, pos).k = "comma"
  THEN IF Tok(toks, pos + 1).k # "string" THEN Fail(Unexpected, pos + 1, EmptyStr)
       ELSE LET r == Method("parse_template_args", <<toks, pos + 2>>) IN
            IF r.err # NoErr THEN r
            ELSE Ok(<<get_string(Tok(toks, pos + 1))>> \o r.val, r.pos, EmptyStr)
  ELSE Ok(<< >>, pos, EmptyStr)

\* "= <string>" after a keyword: the string, or InvalidSyntax
EqualsString(toks, pos) ==
  IF Tok(toks, pos).k # "equals" THEN Fail(Unexpected, pos, EmptyStr)
  ELSE IF Tok(toks, pos + 1).k # "string" THEN Fail(Unexpected, pos + 1, EmptyStr)
  ELSE Ok(get_string(Tok(toks, pos + 1)), pos + 2, EmptyStr)

\* a parse_non_template_standalone in which the rest of the chain replaces
\* the fields read before the comma (= in place of |=)
parse_non_template_standalone_last(toks, pos) ==
  LET selector == Tok(toks, pos).k = "selector"
      p1 == IF selector THEN pos + 1 ELSE pos
      kw == Tok(toks, p1)
      kw_standalone == kw.k = "kw_standalone"
      p2 == IF kw_standalone THEN p1 + 1 ELSE p1
      str == EqualsString(toks, p2)
      first ==
        IF selector THEN Ok("selector" :> JS(Tok(toks, pos).v), p2, EmptyStr)
        ELSE IF ~kw_standalone THEN Fail(InvalidSyntax("Unknown standalone element input"), p2, EmptyStr)
        ELSE IF kw.v \in {"sep", "separator"} THEN
             IF str.err # NoErr THEN str ELSE Ok("separator" :> JS(str.val), str.pos, EmptyStr)
        ELSE IF kw.v = "key" THEN
             IF Tok(toks, p2).k # "equals" THEN Fail(Unexpected, p2, EmptyStr)
             ELSE IF Tok(toks, p2 + 1).k # "keybind" THEN Fail(Unexpected, p2 + 1, EmptyStr)
             ELSE Ok("keybind" :> JAtom("key." \o Tok(toks, p2 + 1).v), p2 + 2, EmptyStr)
        ELSE IF kw.v \in {"translate", "nbt"} THEN
             IF str.err # NoErr THEN str ELSE Ok(kw.v :> JS(str.val), str.pos, EmptyStr)
        ELSE IF kw.v = "with" THEN
             IF Tok(toks, p2).k # "equals" THEN Fail(Unexpected, p2, EmptyStr)
             ELSE LET j == Method("parse_json", <<toks, p2 + 1>>) IN
                  IF j.err # NoErr THEN j ELSE Ok("with" :> j.val, j.pos, EmptyStr)
        ELSE IF kw.v \in {"block", "entity", "storage"} THEN
             IF Tok(toks, p2).k # "equals" THEN Fail(Unexpected, p2, EmptyStr)
             ELSE IF Tok(toks, p2 + 1).k # "string" THEN Fail(Unexpected, p2 + 1, EmptyStr)
             ELSE Ok(kw.v :> JS(Tok(toks, p2 + 1).v), p2 + 2, EmptyStr)
        ELSE IF kw.v = "score" THEN
             IF str.err # NoErr THEN str
             ELSE IF Tok(toks, str.pos).k # "arrow" THEN Fail(Unexpected, str.pos, EmptyStr)
             ELSE IF Tok(toks, str.pos + 1).k # "string" THEN Fail(Unexpected, str.pos + 1, EmptyStr)
             ELSE Ok("score" :> JO("name" :> JS(str.val)
                                   @@ "objective" :> JS(get_string(Tok(toks, str.pos + 1)))),
                     str.pos + 2, EmptyStr)
        ELSE IF kw.v = "interpret" THEN
             IF Tok(toks, p2).k = "equals"
             THEN IF Tok(toks, p2 + 1).k # "boolean" THEN Fail(Unexpected, p2 + 1, EmptyStr)
                  ELSE Ok("interpret" :> JB(Tok(toks, p2 + 1).v = "true"), p2 + 2, EmptyStr)
             ELSE Ok("interpret" :> JB(TRUE), p2, EmptyStr)
        \* the keyword "selector" has no branch: nothing is stored
        ELSE Ok(EmptyDict, p2, EmptyStr)
  IN IF first.err # NoErr THEN first
     ELSE IF Tok(toks, first.pos).k = "comma"
          THEN LET r == Method("parse_non_template_standalone", <<toks, first.pos + 1>>) IN
               IF r.err # NoErr THEN r ELSE Ok(r.val, r.pos, EmptyStr)
          ELSE first

parse_non_template_standalone(toks, pos) ==
  LET selector == Tok(toks, pos).k = "selector"
      p1 == IF selector THEN pos + 1 ELSE pos
      kw == Tok(toks, p1)
      kw_standalone == kw.k = "kw_standalone"
      p2 == IF kw_standalone THEN p1 + 1 ELSE p1
      str == EqualsString(toks, p2)
      first ==
        IF selector THEN Ok("selector" :> JS(Tok(toks, pos).v), p2, EmptyStr)
        ELSE IF ~kw_standalone THEN Fail(InvalidSyntax("Unknown standalone element input"), p2, EmptyStr)
        ELSE IF kw.v \in {"sep", "separator"} THEN
             IF str.err # NoErr THEN str ELSE Ok("separator" :> JS(str.val), str.pos, EmptyStr)
        ELSE IF kw.v = "key" THEN
             IF Tok(toks, p2).k # "equals" THEN Fail(Unexpected, p2, EmptyStr)
             ELSE IF Tok(toks, p2 + 1).k # "keybind" THEN Fail(Unexpected, p2 + 1, EmptyStr)
             ELSE Ok("keybind" :> JAtom("key." \o Tok(toks, p2 + 1).v), p2 + 2, EmptyStr)
        ELSE IF kw.v \in {"translate", "nbt"} THEN
             IF str.err # NoErr THEN str ELSE Ok(kw.v :> JS(str.val), str.pos, EmptyStr)
        ELSE IF kw.v = "with" THEN
             IF Tok(toks, p2).k # "equals" THEN Fail(Unexpected, p2, EmptyStr)
             ELSE LET j == Method("parse_json", <<toks, p2 + 1>>) IN
                  IF j.err # NoErr THEN j ELSE Ok("with" :> j.val, j.pos, EmptyStr)
        ELSE IF kw.v \in {"block", "entity", "storage"} THEN
             IF Tok(toks, p2).k # "equals" THEN Fail(Unexpected, p2, EmptyStr)
             ELSE IF Tok(toks, p2 + 1).k # "string" THEN Fail(Unexpected, p2 + 1, EmptyStr)
             ELSE Ok(kw.v :> JS(Tok(toks, p2 + 1).v), p2 + 2, EmptyStr)
        ELSE IF kw.v = "score" THEN
             IF str.err # NoErr THEN str
             ELSE IF Tok(toks, str.pos).k # "arrow" THEN Fail(Unexpected, str.pos, EmptyStr)
             ELSE IF Tok(toks, str.pos + 1).k # "string" THEN Fail(Unexpected, str.pos + 1, EmptyStr)
             ELSE Ok("score" :> JO("name" :> JS(str.val)
                                   @@ "objective" :> JS(get_string(Tok(toks, str.pos + 1)))),
                     str.pos + 2, EmptyStr)
        ELSE IF kw.v = "interpret" THEN
             IF Tok(toks, p2).k = "equals"
             THEN IF Tok(toks, p2 + 1).k # "boolean" THEN Fail(Unexpected, p2 + 1, EmptyStr)
                  ELSE Ok("interpret" :> JB(Tok(toks, p2 + 1).v = "true"), p2 + 2, EmptyStr)
             ELSE Ok("interpret" :> JB(TRUE), p2, EmptyStr)
        \* the keyword "selector" has no branch: nothing is stored
        ELSE Ok(EmptyDict, p2, EmptyStr)
  IN IF first.err # NoErr THEN first
     ELSE IF Tok(toks, first.pos).k = "comma"
          THEN LET r == Method("parse_non_template_standalone", <<toks, first.pos + 1>>) IN
               IF r.err # NoErr THEN r ELSE Ok(DictMerge(first.val, r.val), r.pos, EmptyStr)
          ELSE first

ModifierKinds == {"kw_json", "kw_scope", "kw_string", "kw_integer", "kw_bool", "kw_link",
                  "url", "kw_color", "hex_code", "color", "pattern"}

\* Parser.error_if_scope
error_if_scope(env) == env.scoped

ScopeError == InvalidSyntax("Unexpected scope")


\* a hover_text block that keeps the parent for the nested parse
HoverText_contents_inherit(toks, pos, env) ==
  LET r == Method("internal_parse", <<toks, pos, [env EXCEPT !.scoped = TRUE]>>)
  IN IF r.err # NoErr THEN Fail(r.err, r.pos, r.parent) ELSE Ok(r.val, r.pos, env.parent)

\* the nested parse of a hover_text block, under stream.provide(scoped=True):
\* the parent is removed for it and put back after it; an exception leaves
\* the parent removed
HoverText_contents(toks, pos, env) ==
  LET q == env.parent
      r == Method("internal_parse", <<toks, pos, [env EXCEPT !.parent = EmptyStr, !.scoped = TRUE]>>)
  IN IF r.err # NoErr THEN Fail(r.err, r.pos, r.parent) ELSE Ok(r.val, r.pos, q)

\* the body of parse_modifiers up to the optional comma: one modifier
ParseModifier(toks, pos, env) ==
  LET tok == Tok(toks, pos)
      p1 == pos + 1
      par == env.parent
      str == EqualsString(toks, p1)
  IN
  IF tok.k \notin ModifierKinds THEN Fail(Unexpected, pos, par)
  ELSE IF tok.k = "kw_json" THEN
       IF error_if_scope(env) THEN Fail(ScopeError, p1, par)
       ELSE IF Tok(toks, p1).k # "equals" THEN Fail(Unexpected, p1, par)
       ELSE LET j == Method("parse_json", <<toks, p1 + 1>>) IN
            IF j.err # NoErr THEN Fail(j.err, j.pos, par)
            ELSE IF tok.v = "hover_item"
                 THEN Ok("hoverEvent" :> JO("action" :> JAtom("show_item") @@ "contents" :> j.val),
                         j.pos, par)
                 ELSE Ok(tok.v :> j.val, j.pos, par)
  ELSE IF tok.k = "kw_scope" THEN
       IF error_if_scope(env) THEN Fail(ScopeError, p1, par)
       ELSE IF Tok(toks, p1).k # "equals" THEN Fail(Unexpected, p1, par)
       ELSE IF ~Is(Tok(toks, p1 + 1), "scope", "<") THEN Fail(Unexpected, p1 + 1, par)
       ELSE LET h == Method("HoverText_contents", <<toks, p1 + 2, env>>) IN
            IF h.err # NoErr THEN h
            ELSE IF ~Is(Tok(toks, h.pos), "scope", ">") THEN Fail(Unexpected, h.pos, h.parent)
            ELSE Ok("hoverEvent" :> JO("action" :> JAtom("show_text")
                                       @@ "contents" :> JA(h.val)),
                    h.pos + 1, h.parent)
  ELSE IF tok.k = "kw_color" THEN
       IF Tok(toks, p1).k # "equals" THEN Fail(Unexpected, p1, par)
       ELSE IF Tok(toks, p1 + 1).k \notin {"color", "hex_code"} THEN Fail(Unexpected, p1 + 1, par)
       ELSE Ok("color" :> JAtom(Tok(toks, p1 + 1).v), p1 + 2, par)
  ELSE IF tok.k \in {"hex_code", "color"} THEN Ok("color" :> JAtom(tok.v), p1, par)
  ELSE IF tok.k = "url" THEN
       IF error_if_scope(env) THEN Fail(ScopeError, p1, par)
       ELSE Ok(ClickEvent("open_url", tok.v), p1, par)
  ELSE IF tok.k = "kw_link" THEN
       IF error_if_scope(env) THEN Fail(ScopeError, p1, par)
       ELSE IF str.err # NoErr THEN Fail(str.err, str.pos, par)
       ELSE Ok(ClickEvent("open_url",
                          IF StartsWith(str.val, <<"h", "t", "t", "p">>) THEN str.val
                          ELSE <<"h", "t", "t", "p", "s", ":", "/", "/">> \o str.val),
               str.pos, par)
  ELSE IF tok.k = "kw_string" THEN
       IF tok.v # "font" /\ error_if_scope(env) THEN Fail(ScopeError, p1, par)
       ELSE IF str.err # NoErr THEN Fail(str.err, str.pos, par)
       ELSE IF tok.v = "copy" THEN Ok(ClickEvent("copy_to_clipboard", str.val), str.pos, par)
       ELSE IF tok.v = "suggest" THEN Ok(ClickEvent("suggest_command", str.val), str.pos, par)
       ELSE IF tok.v = "run" THEN Ok(ClickEvent("run_command", str.val), str.pos, par)
       ELSE Ok(tok.v :> JS(str.val), str.pos, par)
  ELSE IF tok.k = "kw_integer" THEN
       IF error_if_scope(env) THEN Fail(ScopeError, p1, par)
       ELSE IF Tok(toks, p1).k # "equals" THEN Fail(Unexpected, p1, par)
       ELSE IF Tok(toks, p1 + 1).k # "integer" THEN Fail(Unexpected, p1 + 1, par)
       ELSE Ok(ClickEvent("change_page", Tok(toks, p1 + 1).v), p1 + 2, par)
  ELSE IF tok.k = "kw_bool" THEN
       IF Tok(toks, p1).k = "equals"
       THEN IF Tok(toks, p1 + 1).k # "boolean" THEN Fail(Unexpected, p1 + 1, par)
            ELSE Ok(tok.v :> JB(Tok(toks, p1 + 1).v = "true"), p1 + 2, par)
       ELSE Ok(tok.v :> JB(TRUE), p1, par)
  ELSE \* pattern
       IF StrJoin(tok.v) \notin DOMAIN env.patterns
       THEN Fail(InvalidSyntax("Unknown pattern"), p1, par)
       ELSE Ok(env.patterns[StrJoin(tok.v)], p1, par)

\* Parser.parse_modifiers: one modifier, then after a comma the rest of the
\* list, merged over it
parse_modifiers(toks, pos, env) ==
  LET first == Method("ParseModifier", <<toks, pos, env>>) IN
  IF first.err # NoErr THEN first
  ELSE IF Tok(toks, first.pos).k = "comma"
       THEN LET r == Method("parse_modifiers", <<toks, first.pos + 1, [env EXCEPT !.parent = first.parent]>>) IN
            IF r.err # NoErr THEN r ELSE Ok(DictMerge(first.val, r.val), r.pos, r.parent)
       ELSE first

\* a parse_standalone that lets the modifiers after a template fragment pass
\* and emits the fragment as it is
parse_standalone_lenient(toks, pos, env) ==
  LET tok == Tok(toks, pos)
      par == env.parent
      args == Method("parse_template_args", <<toks, pos + 1>>)
      loaded == Method("loads", <<Method("SubstituteArgs", <<Method("dumps", <<JA(env.templates[StrJoin(tok.v)])>>), args.val, 0>>)>>)
      contents ==
        IF tok.k = "eof" THEN Ok(JO(EmptyDict), pos, par)
        ELSE IF tok.k = "template" THEN
             IF StrJoin(tok.v) \notin DOMAIN env.templates
             THEN Fail(InvalidSyntax("Unknown template"), pos + 1, par)
             ELSE IF args.err # NoErr THEN Fail(args.err, args.pos, par)
             ELSE IF loaded.err # NoErr THEN Fail(loaded.err, args.pos, par)
             ELSE Ok(loaded.val, args.pos, par)
        ELSE LET r == Method("parse_non_template_standalone", <<toks, pos>>) IN
             IF r.err # NoErr THEN Fail(r.err, r.pos, par) ELSE Ok(JO(r.val), r.pos, par)
  IN
  IF contents.err # NoErr THEN contents
  ELSE IF ~Is(Tok(toks, contents.pos), "brace", "}") THEN Fail(Unexpected, contents.pos, par)
  ELSE IF Is(Tok(toks, contents.pos + 1), "paren", "(")
       THEN LET m == Method("parse_modifiers", <<toks, contents.pos + 2, env>>) IN
            IF m.err # NoErr THEN m
            ELSE IF ~Is(Tok(toks, m.pos), "paren", ")") THEN Fail(Unexpected, m.pos, m.parent)
            ELSE IF contents.val.t # "obj"
                 THEN Ok(contents.val, m.pos + 1, m.parent)
                 ELSE Ok(JO(DictMerge(contents.val.v, m.val)), m.pos + 1, m.parent)
       ELSE Ok(contents.val, contents.pos + 1, par)

\* Parser.parse_standalone; the opening brace has been consumed
parse_standalone(toks, pos, env) ==
  LET tok == Tok(toks, pos)
      par == env.parent
      args == Method("parse_template_args", <<toks, pos + 1>>)
      loaded == Method("loads", <<Method("SubstituteArgs", <<Method("dumps", <<JA(env.templates[StrJoin(tok.v)])>>), args.val, 0>>)>>)
      contents ==
        IF tok.k = "eof" THEN Ok(JO(EmptyDict), pos, par)
        ELSE IF tok.k = "template" THEN
             IF StrJoin(tok.v) \notin DOMAIN env.templates
             THEN Fail(InvalidSyntax("Unknown template"), pos + 1, par)
             ELSE IF args.err # NoErr THEN Fail(args.err, args.pos, par)
             ELSE IF loaded.err # NoErr THEN Fail(loaded.err, args.pos, par)
             ELSE Ok(loaded.val, args.pos, par)
        ELSE LET r == Method("parse_non_template_standalone", <<toks, pos>>) IN
             IF r.err # NoErr THEN Fail(r.err, r.pos, par) ELSE Ok(JO(r.val), r.pos, par)
  IN
  IF contents.err # NoErr THEN contents
  ELSE IF ~Is(Tok(toks, contents.pos), "brace", "}") THEN Fail(Unexpected, contents.pos, par)
  ELSE IF Is(Tok(toks, contents.pos + 1), "paren", "(")
       THEN LET m == Method("parse_modifiers", <<toks, contents.pos + 2, env>>) IN
            IF m.err # NoErr THEN m
            ELSE IF ~Is(Tok(toks, m.pos), "paren", ")") THEN Fail(Unexpected, m.pos, m.parent)
            ELSE IF contents.val.t # "obj"
                 THEN Fail(InvalidSyntax("Modifiers are not supported on templates"),
                           m.pos + 1, m.parent)
                 ELSE Ok(JO(DictMerge(contents.val.v, m.val)), m.pos + 1, m.parent)
       ELSE Ok(contents.val, contents.pos + 1, par)

\* the loop of internal_parse over stream.collect(...): the AST nodes read
\* until the next token is none of "[", "{", an escape or text
CollectNodes(toks, pos, env, ast) ==
  LET tok == Tok(toks, pos) IN
  IF tok.k = "escape" THEN
       Method("CollectNodes", <<toks, pos + 1, env,
                    Append(ast, [t |-> "str",
                                 v |-> IF tok.v[2] \in SpecialEscapes THEN <<tok.v[2]>> ELSE tok.v])>>)
  ELSE IF Is(tok, "sqrbr", "[") THEN
       LET body == Method("internal_parse", <<toks, pos + 1, env>>) IN
       IF body.err # NoErr THEN body
       ELSE IF ~Is(Tok(toks, body.pos), "sqrbr", "]") THEN Fail(Unexpected, body.pos, body.parent)
       ELSE IF ~Is(Tok(toks, body.pos + 1), "paren", "(") THEN Fail(Unexpected, body.pos + 1, body.parent)
       ELSE LET m == Method("parse_modifiers", <<toks, body.pos + 2, [env EXCEPT !.parent = body.parent]>>) IN
            IF m.err # NoErr THEN m
            ELSE IF ~Is(Tok(toks, m.pos), "paren", ")") THEN Fail(Unexpected, m.pos, m.parent)
            ELSE Method("CollectNodes", <<toks, m.pos + 1, [env EXCEPT !.parent = m.parent],
                              Append(ast, [t |-> "span", modified_text |-> body.val,
                                           modifier_contents |-> m.val])>>)
  ELSE IF Is(tok, "brace", "{") THEN
       LET q == Method("parse_standalone", <<toks, pos + 1, env>>) IN
       IF q.err # NoErr THEN q
       ELSE Method("CollectNodes", <<toks, q.pos, [env EXCEPT !.parent = q.parent],
                         Append(ast, [t |-> "sa", v |-> q.val])>>)
  ELSE IF tok.k = "text" THEN
       Method("CollectNodes", <<toks, pos + 1, env, Append(ast, [t |-> "str", v |-> tok.v])>>)
  ELSE Ok(ast, pos, env.parent)

\* Parser.internal_parse: the nodes, cleaned and converted
internal_parse(toks, pos, env) ==
  LET c == Method("CollectNodes", <<toks, pos, env, << >>>>) IN
  IF c.err # NoErr THEN c
  ELSE LET j == Method("convert_ast_to_json", <<Method("clean_ast", <<c.val>>), c.parent>>) IN
       IF j.err # NoErr THEN Fail(j.err, c.pos, c.parent)
       ELSE Ok(j.val, c.pos, c.parent)

\* ------------------------------------------------------------------------
\* The definition registry.  st is the registry part of the parser,
\* [patterns, templates, parent]; the operations return it as they leave it,
\* also when they raise.
\* ------------------------------------------------------------------------
Env(st, scoped) ==
  [patterns |-> st.patterns, templates |-> st.templates, parent |-> st.parent, scoped |-> scoped]

Ret(e, v, pos, st) == [err |-> e, val |-> v, pos |-> pos, st |-> st]

\* Parser.add_definition: the name with its sigil; the name is a tuple of
\* characters, the key of the registry the word they spell
InternalName(type, name) ==
  LET name_prefix == IF type = "pattern" THEN <<"@">> ELSE <<"$">>
  IN StrJoin(IF StartsWith(name, name_prefix) THEN name ELSE name_prefix \o name)

\* an add_definition that looks the name up as it was given
add_definition_raw(type, name, st) ==
  LET obj == IF type = "pattern" THEN st.patterns ELSE st.templates
  IN IF StrJoin(name) \in DOMAIN obj THEN DefinitionAlreadyExists ELSE NoErr

add_definition(type, name, st) ==
  LET obj == IF type = "pattern" THEN st.patterns ELSE st.templates
  IN IF InternalName(type, name) \in DOMAIN obj THEN DefinitionAlreadyExists ELSE NoErr

\* Parser.add_pattern on the stream toks at pos
add_pattern(name, toks, pos, st) ==
  LET d == Method("add_definition", <<"pattern", name, st>>) IN
  IF d # NoErr THEN Ret(d, EmptyStr, pos, st)
  ELSE IF ~Is(Tok(toks, pos), "paren", "(") THEN Ret(Unexpected, EmptyStr, pos, st)
  ELSE LET m == Method("parse_modifiers", <<toks, pos + 1, Env(st, FALSE)>>)
           st1 == [st EXCEPT !.parent = m.parent]
       IN IF m.err # NoErr THEN Ret(m.err, EmptyStr, m.pos, st1)
          ELSE IF ~Is(Tok(toks, m.pos), "paren", ")") THEN Ret(Unexpected, EmptyStr, m.pos, st1)
          ELSE Ret(NoErr, JO(m.val), m.pos + 1,
                   [st1 EXCEPT !.patterns = (InternalName("pattern", name) :> m.val) @@ @])

\* an add_template that parses the fragment with no parent
add_template_rootless(name, toks, pos, st) ==
  LET d == Method("add_definition", <<"template", name, st>>) IN
  IF d # NoErr THEN Ret(d, EmptyStr, pos, st)
  ELSE LET c == Method("internal_parse", <<toks, pos, Env([st EXCEPT !.parent = EmptyStr], FALSE)>>)
       IN IF c.err # NoErr THEN Ret(c.err, EmptyStr, c.pos, st)
          ELSE Ret(NoErr, JA(c.val), c.pos,
                   [st EXCEPT !.templates = (InternalName("template", name) :> c.val) @@ @])

\* Parser.add_template on the stream toks at pos
add_template(name, toks, pos, st) ==
  LET d == Method("add_definition", <<"template", name, st>>) IN
  IF d # NoErr THEN Ret(d, EmptyStr, pos, st)
  ELSE LET c == Method("internal_parse", <<toks, pos, Env(st, FALSE)>>)
           st1 == [st EXCEPT !.parent = c.parent]
       IN IF c.err # NoErr THEN Ret(c.err, EmptyStr, c.pos, st1)
          ELSE Ret(NoErr, JA(c.val), c.pos,
                   [st1 EXCEPT !.templates = (InternalName("template", name) :> c.val) @@ @])

\* a set_parent that adds the modifiers to the parent that is already set
set_parent_merge(toks, pos, st) ==
  IF Is(Tok(toks, pos), "paren", "(") THEN
       LET m == Method("parse_modifiers", <<toks, pos + 1, Env(st, FALSE)>>)
           st1 == [st EXCEPT !.parent = m.parent]
       IN IF m.err # NoErr THEN Ret(m.err, EmptyStr, m.pos, st1)
          ELSE IF ~Is(Tok(toks, m.pos), "paren", ")") THEN Ret(Unexpected, EmptyStr, m.pos, st1)
          ELSE Ret(NoErr, JO(m.val), m.pos + 1,
                   [st1 EXCEPT !.parent = IF @ = EmptyStr THEN JO(m.val)
                                          ELSE JO(DictMerge(@.v, m.val))])
  ELSE IF Tok(toks, pos).k = "null" THEN Ret(NoErr, EmptyStr, pos + 1, [st EXCEPT !.parent = EmptyStr])
  ELSE Ret(InvalidSyntax("Expected either modifier or null for parent, got neither"),
           EmptyStr, pos, st)

\* a set_parent that keeps a parent that is already set
set_parent_once(toks, pos, st) ==
  IF Is(Tok(toks, pos), "paren", "(") THEN
       LET m == Method("parse_modifiers", <<toks, pos + 1, Env(st, FALSE)>>)
           st1 == [st EXCEPT !.parent = m.parent]
       IN IF m.err # NoErr THEN Ret(m.err, EmptyStr, m.pos, st1)
          ELSE IF ~Is(Tok(toks, m.pos), "paren", ")") THEN Ret(Unexpected, EmptyStr, m.pos, st1)
          ELSE Ret(NoErr, JO(m.val), m.pos + 1,
                   [st1 EXCEPT !.parent = IF @ = EmptyStr THEN JO(m.val) ELSE @])
  ELSE IF Tok(toks, pos).k = "null" THEN Ret(NoErr, EmptyStr, pos + 1, [st EXCEPT !.parent = EmptyStr])
  ELSE Ret(InvalidSyntax("Expected either modifier or null for parent, got neither"),
           EmptyStr, pos, st)

\* Parser.set_parent on the stream toks at pos
set_parent(toks, pos, st) ==
  IF Is(Tok(toks, pos), "paren", "(") THEN
       LET m == Method("parse_modifiers", <<toks, pos + 1, Env(st, FALSE)>>)
           st1 == [st EXCEPT !.parent = m.parent]
       IN IF m.err # NoErr THEN Ret(m.err, EmptyStr, m.pos, st1)
          ELSE IF ~Is(Tok(toks, m.pos), "paren", ")") THEN Ret(Unexpected, EmptyStr, m.pos, st1)
          ELSE Ret(NoErr, JO(m.val), m.pos + 1, [st1 EXCEPT !.parent = JO(m.val)])
  ELSE IF Tok(toks, pos).k = "null" THEN Ret(NoErr, EmptyStr, pos + 1, [st EXCEPT !.parent = EmptyStr])
  ELSE Ret(InvalidSyntax("Expected either modifier or null for parent, got neither"),
           EmptyStr, pos, st)

RECURSIVE SkipNewlines(_, _)
SkipNewlines(toks, pos) ==
  IF Tok(toks, pos).k = "newline" THEN SkipNewlines(toks, pos + 1) ELSE pos

\* Parser.parse_definitions.  An InvalidSyntax is dropped by the except
\* clause only when nothing but blanks follows the start of the current
\* token, which no block with a token in it satisfies: the block is
\* stripped, so its last token is not blank.
parse_definitions(toks, pos, st) ==
  LET tok == Tok(toks, pos)
      stmt ==
        IF tok.k \notin {"pattern", "template", "parent"} THEN Ret(Unexpected, EmptyStr, pos, st)
        ELSE IF Tok(toks, pos + 1).k # "equals" THEN Ret(Unexpected, EmptyStr, pos + 1, st)
        ELSE IF tok.k = "pattern" THEN Method("add_pattern", <<tok.v, toks, pos + 2, st>>)
        ELSE IF tok.k = "template" THEN
             IF ~Is(Tok(toks, pos + 2), "brace", "{") THEN Ret(Unexpected, EmptyStr, pos + 2, st)
             ELSE LET a == Method("add_template", <<tok.v, toks, pos + 3, st>>) IN
                  IF a.err # NoErr THEN a
                  ELSE IF ~Is(Tok(toks, a.pos), "brace", "}") THEN Ret(Unexpected, EmptyStr, a.pos, a.st)
                  ELSE Ret(NoErr, EmptyStr, a.pos + 1, a.st)
        ELSE Method("set_parent", <<toks, pos + 2, st>>)
  IN IF stmt.err # NoErr THEN stmt
     ELSE IF Tok(toks, stmt.pos).k = "newline"
          THEN Method("parse_definitions", <<toks, SkipNewlines(toks, stmt.pos), stmt.st>>)
          ELSE Ret(NoErr, EmptyStr, stmt.pos, stmt.st)

\* text.strip() on the markup body: the blanks at the two ends of the text
\* belong to its first and its last text token
StripBody(toks) ==
  LET l == IF toks # << >> /\ Head(toks).k = "text"
           THEN (IF LStrip(Head(toks).v) = << >> THEN Tail(toks)
                 ELSE <<[Head(toks) EXCEPT !.v = LStrip(@)]>> \o Tail(toks))
           ELSE toks
      n == Len(l)
  IN IF l # << >> /\ l[n].k = "text"
     THEN (IF RStrip(l[n].v) = << >> THEN SubSeq(l, 1, n - 1)
           ELSE [l EXCEPT ![n].v = RStrip(@)])
     ELSE l

\* Parser.pre_process.  text is [hasDefs, defs, body]: whether the delimiter
\* occurs in it, the tokens of the stripped block before the delimiter, the
\* tokens of the text after it.
pre_process(text, st) ==
  LET d == Method("parse_definitions", <<text.defs, 1, st>>) IN
  IF text.hasDefs /\ d.err # NoErr THEN Ret(d.err, << >>, d.pos, d.st)
  ELSE Ret(NoErr, StripBody(text.body), 1, IF text.hasDefs THEN d.st ELSE st)

\* the methods, by name
Method(m, a) ==
  CASE m = "parse_json" -> parse_json(a[1], a[2]) []
       m = "ParseJsonMembers" -> ParseJsonMembers(a[1], a[2], a[3]) []
       m = "ParseJsonElements" -> ParseJsonElements(a[1], a[2], a[3]) []
       m = "clean_ast" -> clean_ast(a[1]) []
       m = "convert_ast_to_json" -> convert_ast_to_json(a[1], a[2]) []
       m = "SubstituteArgs" -> SubstituteArgs(a[1], a[2], a[3]) []
       m = "parse_template_args" -> parse_template_args(a[1], a[2]) []
       m = "parse_non_template_standalone" -> parse_non_template_standalone(a[1], a[2]) []
       m = "HoverText_contents" -> HoverText_contents(a[1], a[2], a[3]) []
       m = "ParseModifier" -> ParseModifier(a[1], a[2], a[3]) []
       m = "parse_modifiers" -> parse_modifiers(a[1], a[2], a[3]) []
       m = "parse_standalone" -> parse_standalone(a[1], a[2], a[3]) []
       m = "CollectNodes" -> CollectNodes(a[1], a[2], a[3], a[4]) []
       m = "internal_parse" -> internal_parse(a[1], a[2], a[3]) []
       m = "add_definition" -> add_definition(a[1], a[2], a[3]) []
       m = "add_pattern" -> add_pattern(a[1], a[2], a[3], a[4]) []
       m = "add_template" -> add_template(a[1], a[2], a[3], a[4]) []
       m = "set_parent" -> set_parent(a[1], a[2], a[3]) []
       m = "parse_definitions" -> parse_definitions(a[1], a[2], a[3]) []
       m = "pre_process" -> pre_process(a[1], a[2]) []
       m = "dumps" -> dumps(a[1]) []
       m = "loads" -> loads(a[1])

\* ------------------------------------------------------------------------
\* The parser instance and its public operations
\* ------------------------------------------------------------------------
VARIABLES
  patterns,    \* self.patterns: name -> modifier set
  templates,   \* self.templates: name -> parsed fragment
  parent,      \* self.parent: a modifier set, or ""
  indent,      \* self.indent
  json_dump,   \* self.json_dump
  call,        \* the last call made on the instance and its arguments
  ret,         \* what that call returned or raised
  assigned,    \* the parent of the most recent assignment (set_parent, PARENT = ...)
  fresh,       \* no parse() has been called since that assignment
  requested,   \* the defaults most recently given to set_defaults, None if never
  calls        \* the number of calls made

vars == <<patterns, templates, parent, indent, json_dump, call, ret, assigned, fresh,
          requested, calls>>

\* the number of calls explored on one instance
MaxCalls == 3

Registry == [patterns |-> patterns, templates |-> templates, parent |-> parent]

NoText == [hasDefs |-> FALSE, defs |-> << >>, body |-> << >>]

Call(op, name, toks, text, i, j) ==
  [op |-> op, name |-> name, toks |-> toks, text |-> text, indent |-> i, json_dump |-> j]

\* a returned value: out is the value, serialized tells that json.dumps was
\* applied to it, with the given indent
Returned(out, serialized, i) ==
  [err |-> NoErr, out |-> out, serialized |-> serialized, indent |-> i]
Raised(e) == [err |-> e, out |-> EmptyStr, serialized |-> FALSE, indent |-> NoneInt]

Truthy(i) == i # NoneInt /\ i # 0

\* Parser.__init__(indent, json_dump)
Construct(i, j) ==
  /\ indent = i
  /\ json_dump = j
  /\ patterns = EmptyDict
  /\ templates = EmptyDict
  /\ parent = EmptyStr
  /\ call = Call("init", << >>, << >>, NoText, i, j)
  /\ ret = Returned(EmptyStr, FALSE, NoneInt)
  /\ assigned = EmptyStr
  /\ fresh = TRUE
  /\ requested = [indent |-> NoneInt, json_dump |-> NoneBool]
  /\ calls = 0

\* Parser.set_defaults(indent, json_dump)
SetDefaults(i, j) ==
  /\ calls < MaxCalls
  /\ indent' = IF Truthy(i) THEN i ELSE indent
  /\ json_dump' = IF j = "True" THEN j ELSE json_dump
  /\ call' = Call("set_defaults", << >>, << >>, NoText, i, j)
  /\ ret' = Returned(EmptyStr, FALSE, NoneInt)
  /\ requested' = [indent |-> IF i # NoneInt THEN i ELSE requested.indent,
                   json_dump |-> IF j # NoneBool THEN j ELSE requested.json_dump]
  /\ calls' = calls + 1
  /\ UNCHANGED <<patterns, templates, parent, assigned, fresh>>

\* what the source of a parent at pos says: "" for null, else its modifiers
Denoted(toks, pos, st) ==
  IF Tok(toks, pos).k = "null" THEN EmptyStr
  ELSE JO(Method("parse_modifiers", <<toks, pos + 1, Env(st, FALSE)>>).val)

\* the state after set_parent has returned or raised r
SetParentDone(toks, r, denoted) ==
  /\ calls < MaxCalls
  /\ parent' = r.st.parent
  /\ call' = Call("set_parent", << >>, toks, NoText, NoneInt, NoneBool)
  /\ ret' = IF r.err = NoErr THEN Returned(r.val, FALSE, NoneInt) ELSE Raised(r.err)
  /\ assigned' = IF r.err = NoErr THEN denoted ELSE assigned
  /\ fresh' = IF r.err = NoErr THEN TRUE ELSE fresh
  /\ calls' = calls + 1
  /\ UNCHANGED <<patterns, templates, indent, json_dump, requested>>

\* Parser.set_parent(source): toks are the tokens of the source
SetParent(toks) ==
  SetParentDone(toks, Method("set_parent", <<toks, 1, Registry>>), Denoted(toks, 1, Registry))

\* the state after add_pattern has returned or raised r
AddPatternDone(name, toks, r) ==
  /\ calls < MaxCalls
  /\ patterns' = r.st.patterns
  /\ parent' = r.st.parent
  /\ call' = Call("add_pattern", name, toks, NoText, NoneInt, NoneBool)
  /\ ret' = IF r.err = NoErr THEN Returned(r.val, FALSE, NoneInt) ELSE Raised(r.err)
  /\ calls' = calls + 1
  /\ UNCHANGED <<templates, indent, json_dump, assigned, fresh, requested>>

\* Parser.add_pattern(name, source)
AddPattern(name, toks) ==
  AddPatternDone(name, toks, Method("add_pattern", <<name, toks, 1, Registry>>))

\* the state after add_template has returned or raised r
AddTemplateDone(name, toks, r) ==
  /\ calls < MaxCalls
  /\ templates' = r.st.templates
  /\ parent' = r.st.parent
  /\ call' = Call("add_template", name, toks, NoText, NoneInt, NoneBool)
  /\ ret' = IF r.err = NoErr THEN Returned(r.val, FALSE, NoneInt) ELSE Raised(r.err)
  /\ calls' = calls + 1
  /\ UNCHANGED <<patterns, indent, json_dump, assigned, fresh, requested>>

\* Parser.add_template(name, source)
AddTemplate(name, toks) ==
  AddTemplateDone(name, toks, Method("add_template", <<name, toks, 1, Registry>>))

\* the position after the "=" of the last PARENT statement of a block, 0 if
\* there is none
LastParentStmt(defs) ==
  LET ps == {p \in 1..Len(defs) : defs[p].k = "parent"} IN
  IF ps = {} THEN 0 ELSE (CHOOSE p \in ps : \A q \in ps : q <= p) + 2

\* a parse that stores the fragment it emitted for an invocation in place of
\* the template
ParseDone_inplace(text, i, j, pp, ip, denoted) ==
  LET indentUsed == IF ~Truthy(i) /\ Truthy(indent) THEN indent ELSE i
      dumpUsed == IF j = NoneBool
                  THEN (IF json_dump # NoneBool THEN json_dump ELSE "True")
                  ELSE j
      failed == pp.err # NoErr \/ ip.err # NoErr
      raised == IF pp.err # NoErr
                THEN (IF pp.err.cls = "InvalidSyntax"
                      THEN Err("UnboundLocalError", "stream") ELSE pp.err)
                ELSE (IF ip.err.cls = "InvalidSyntax"
                      THEN [ip.err EXCEPT !.decorated = TRUE] ELSE ip.err)
  IN
  /\ calls < MaxCalls
  /\ patterns' = pp.st.patterns
  /\ templates' = IF ~failed /\ Len(ip.val) >= 2 /\ ip.val[2].t = "arr"
                  THEN [n \in DOMAIN pp.st.templates |-> ip.val[2].v]
                  ELSE pp.st.templates
  /\ parent' = IF pp.err # NoErr THEN pp.st.parent
               ELSE IF ip.err # NoErr THEN ip.parent
               ELSE EmptyStr
  /\ call' = Call("parse", << >>, << >>, text, i, j)
  /\ ret' = IF failed THEN Raised(raised)
            ELSE Returned(JA(ip.val), dumpUsed = "True",
                          IF dumpUsed = "True" THEN indentUsed ELSE NoneInt)
  /\ assigned' = IF text.hasDefs /\ LastParentStmt(text.defs) # 0
                 THEN (IF pp.err = NoErr THEN denoted ELSE pp.st.parent)
                 ELSE assigned
  /\ fresh' = FALSE
  /\ calls' = calls + 1
  /\ UNCHANGED <<indent, json_dump, requested>>

\* the state after parse: pp is what pre_process returned or raised, ip what
\* internal_parse did on the text pre_process returned.  An InvalidSyntax
\* raised by internal_parse is raised again with the source context; one
\* raised by pre_process finds the local name stream unbound while the
\* message is built.
ParseDone(text, i, j, pp, ip, denoted) ==
  LET indentUsed == IF ~Truthy(i) /\ Truthy(indent) THEN indent ELSE i
      dumpUsed == IF j = NoneBool
                  THEN (IF json_dump # NoneBool THEN json_dump ELSE "True")
                  ELSE j
      failed == pp.err # NoErr \/ ip.err # NoErr
      raised == IF pp.err # NoErr
                THEN (IF pp.err.cls = "InvalidSyntax"
                      THEN Err("UnboundLocalError", "stream") ELSE pp.err)
                ELSE (IF ip.err.cls = "InvalidSyntax"
                      THEN [ip.err EXCEPT !.decorated = TRUE] ELSE ip.err)
  IN
  /\ calls < MaxCalls
  /\ patterns' = pp.st.patterns
  /\ templates' = pp.st.templates
  /\ parent' = IF pp.err # NoErr THEN pp.st.parent
               ELSE IF ip.err # NoErr THEN ip.parent
               ELSE EmptyStr
  /\ call' = Call("parse", << >>, << >>, text, i, j)
  /\ ret' = IF failed THEN Raised(raised)
            ELSE Returned(JA(ip.val), dumpUsed = "True",
                          IF dumpUsed = "True" THEN indentUsed ELSE NoneInt)
  /\ assigned' = IF text.hasDefs /\ LastParentStmt(text.defs) # 0
                 THEN (IF pp.err = NoErr THEN denoted ELSE pp.st.parent)
                 ELSE assigned
  /\ fresh' = FALSE
  /\ calls' = calls + 1
  /\ UNCHANGED <<indent, json_dump, requested>>

\* internal_parse on the text that pre_process returned
ParsePreProcessed(text, i, j, pp) ==
  ParseDone(text, i, j, pp,
            Method("internal_parse", <<pp.val, 1, Env(pp.st, FALSE)>>),
            Denoted(text.defs, LastParentStmt(text.defs), pp.st))

\* Parser.parse(text, indent, json_dump)
Parse(text, i, j) ==
  ParsePreProcessed(text, i, j, Method("pre_process", <<text, Registry>>))

\* ------------------------------------------------------------------------
\* Source texts, as the tokens the lexer yields for them
\* ------------------------------------------------------------------------
T(k, v) == [k |-> k, v |-> v]
Txt(s) == T("text", s)
Esc(c) == T("escape", <<"\\", c>>)
Str(s) == T("string", s)
LBr == T("sqrbr", "[")
RBr == T("sqrbr", "]")
LBrace == T("brace", "{")
RBrace == T("brace", "}")
LPar == T("paren", "(")
RPar == T("paren", ")")
LScope == T("scope", "<")
RScope == T("scope", ">")
Eq == T("equals", "=")
Comma == T("comma", ",")
NL == T("newline", "\n")
Bold == T("kw_bool", "bold")
Italic == T("kw_bool", "italic")
Color(c) == T("color", c)
False == T("boolean", "false")
True == T("boolean", "true")
PatternTok(n) == T("pattern", <<"@">> \o n)
TemplateTok(n) == T("template", <<"$">> \o n)
ParentTok == T("parent", "PARENT")
NullTok == T("null", "null")

\* [body](mods) and (mods)
Span(body, mods) == <<LBr>> \o body \o <<RBr, LPar>> \o mods \o <<RPar>>
Parens(mods) == <<LPar>> \o mods \o <<RPar>>
\* hover_text=<body>
HoverText(body) == <<T("kw_scope", "hover_text"), Eq, LScope>> \o body \o <<RScope>>
\* keyword="value"
KwString(kw, s) == <<T("kw_string", kw), Eq, Str(s)>>
\* {$name, "a0", ...}
RECURSIVE ArgToks(_)
ArgToks(args) == IF args = << >> THEN << >> ELSE <<Comma, Str(Head(args))>> \o ArgToks(Tail(args))
Invoke(n, args) == <<LBrace, TemplateTok(n)>> \o ArgToks(args) \o <<RBrace>>

\* a text without a definitions block, and one with it
Body(toks) == [hasDefs |-> FALSE, defs |-> << >>, body |-> toks]
WithDefs(defs, toks) == [hasDefs |-> TRUE, defs |-> defs, body |-> toks]

\* some words
wSomebody == <<"S", "o", "m", "e", "b", "o", "d", "y">>
wAll == <<"A", "l", "l">>
wHello == <<"H", "e", "l", "l", "o">>
wCmd == <<"/", "s", "a", "y">>
Underlined == T("kw_bool", "underlined")

\* ------------------------------------------------------------------------
\* The parent style: set_parent and parse on one instance
\* ------------------------------------------------------------------------
ParentSources ==
  << Parens(<<Bold, Comma, Color("blue")>>),
     Parens(<<Italic>>),
     <<NullTok>>,
     <<LPar, Bold>>,
     Parens(<<Underlined, Comma>> \o HoverText(<<Txt(wHello)>>)) >>

ParentTexts ==
  << Body(<<Txt(wSomebody)>>),
     Body(Span(<<Txt(wAll)>>, HoverText(<<Txt(wHello)>>))),
     Body(<<Txt(wSomebody)>> \o Span(<<Txt(wAll)>>, HoverText(Span(<<Txt(wHello)>>, <<Bold>>)))),
     Body(Span(<<Txt(wAll)>>, HoverText(Span(<<Txt(wHello)>>, KwString("run", wCmd))))),
     Body(<<LBr, Txt(wHello)>>),
     WithDefs(<<ParentTok, Eq>> \o Parens(<<Color("green"), Comma, Underlined>>),
              <<Txt(wSomebody)>>),
     WithDefs(<<ParentTok, Eq, NullTok>>, <<Txt(wSomebody)>>),
     WithDefs(<<ParentTok, Eq>> \o Parens(<<Italic>>) \o <<NL, ParentTok, Eq>>
                \o Parens(<<Underlined>>),
              Span(<<Txt(wAll)>>, HoverText(<<Txt(wHello)>>))),
     WithDefs(<<ParentTok, Eq>> \o Parens(<<Color("green")>>), <<LBr, Txt(wHello)>>) >>

ParentSetParent == \E i \in 1..Len(ParentSources) : SetParent(ParentSources[i])
ParentParse == \E i \in 1..Len(ParentTexts) : Parse(ParentTexts[i], NoneInt, "False")

InitParent == Construct(NoneInt, NoneBool)
NextParent == ParentSetParent \/ ParentParse
SpecParent == InitParent /\ [][NextParent]_vars

\* the root element of the output of a successful parse
Root == ret.out.v[1]
ParseReturned == call.op = "parse" /\ ret.err = NoErr

\* C1: after set_parent(m), every later successful parse() of a text without
\* a PARENT statement has m as the first element of its output - the second
\* parse() after one set_parent(m) as well as the first.
C1_ParentPersistsAcrossParses ==
  (ParseReturned /\ LastParentStmt(call.text.defs) = 0) => Root = assigned

\* the hoverEvent of an entry of an output, if it is a show_text one
IsShowText(entry) ==
  /\ entry.t = "obj"
  /\ "hoverEvent" \in DOMAIN entry.v
  /\ entry.v["hoverEvent"].v["action"] = JAtom("show_text")
HoverContents(entry) == entry.v["hoverEvent"].v["contents"].v

\* C4: set_parent never raises a conflict and overwrites: the parent it
\* leaves is what its source says, whatever the parent was before ("" for
\* null); and the parse() called next after an assignment - or the parse()
\* whose text makes the assignment with a PARENT statement - has the most
\* recently assigned parent as the first element of its output, "" when the
\* parent is unset or cleared.
C4_SetParentOverwrites ==
  [][ /\ (call'.op = "set_parent" /\ calls' = calls + 1) =>
           /\ ret'.err.cls # "DefinitionAlreadyExists"
           /\ ret'.err = NoErr => parent' = Denoted(call'.toks, 1, Registry)
      /\ (call'.op = "parse" /\ calls' = calls + 1 /\ ret'.err = NoErr
          /\ (fresh \/ LastParentStmt(call'.text.defs) # 0)) =>
           ret'.out.v[1] = assigned'
    ]_vars

\* C4 witness: a parse() returned a parent that replaced an earlier one
C4_Witness ==
  /\ ParseReturned
  /\ Root = JO("italic" :> JB(TRUE))
  /\ calls = 3

\* C8: the contents of a hover_text block start with the empty string, not
\* with the parent, and the output of the parse() that holds the block still
\* starts with the parent that was set when it was called.
C8_HoverDoesNotInheritParent ==
  [][ (call'.op = "parse" /\ calls' = calls + 1 /\ ret'.err = NoErr) =>
        /\ \A k \in 2..Len(ret'.out.v) :
             IsShowText(ret'.out.v[k]) => HoverContents(ret'.out.v[k])[1] = EmptyStr
        /\ (~call'.text.hasDefs /\ \E k \in 2..Len(ret'.out.v) : IsShowText(ret'.out.v[k]))
             => ret'.out.v[1] = parent
    ]_vars

\* C8 witness: an output with a parent as its root and a hover_text entry
C8_Witness ==
  /\ ParseReturned
  /\ ~call.text.hasDefs
  /\ Root.t = "obj"
  /\ \E k \in 2..Len(ret.out.v) :
       IsShowText(ret.out.v[k]) /\ HoverContents(ret.out.v[k])[1] = EmptyStr

\* ------------------------------------------------------------------------
\* The definition registry: external and in-text definitions, references
\* ------------------------------------------------------------------------
wX == <<"x">>
nA == <<"a">>
nB == <<"b">>
nC == <<"c">>
nT == <<"t">>
nZ == <<"z", "z">>
DefPattern(n, mods) == <<PatternTok(n), Eq>> \o Parens(mods)
DefTemplate(n, body) == <<TemplateTok(n), Eq, LBrace>> \o body \o <<RBrace>>

PatternNames == << nA, <<"@">> \o nA, nB >>
PatternSources ==
  << Parens(<<Bold>>),
     Parens(<<Color("red"), Comma, Italic>>),
     Parens(<<PatternTok(nZ)>>) >>
TemplateNames == << nT, <<"$">> \o nT >>
TemplateSources == << <<Txt(wHello)>>, Invoke(nZ, << >>) >>

DefTexts ==
  << WithDefs(DefPattern(nA, <<Color("yellow")>>), Span(<<Txt(wX)>>, <<PatternTok(nA)>>)),
     WithDefs(DefTemplate(nT, <<Txt(wAll)>>), Invoke(nT, << >>)),
     WithDefs(DefPattern(nA, <<Bold>>) \o <<NL>> \o DefPattern(nA, <<Color("red")>>), <<Txt(wX)>>),
     WithDefs(DefTemplate(nT, <<Txt(wAll)>>) \o <<NL>> \o DefTemplate(nT, <<Txt(wX)>>),
              <<Txt(wX)>>),
     WithDefs(DefPattern(nB, <<Italic>>) \o <<NL>> \o DefTemplate(nT, <<Txt(wX)>>) \o <<NL>>
                \o DefPattern(nA, <<Italic>>),
              <<Txt(wX)>>),
     Body(Span(<<Txt(wX)>>, <<Bold, Comma, PatternTok(nZ)>>)),
     Body(<<Txt(wX)>> \o Invoke(nZ, <<wX>>)),
     Body(Span(<<Txt(wX)>>, <<PatternTok(nA)>>) \o Invoke(nT, << >>)),
     Body(Span(<<Txt(wAll)>>, HoverText(Span(<<Txt(wX)>>, <<PatternTok(nZ)>>)))),
     WithDefs(DefPattern(nC, <<PatternTok(nZ)>>), <<Txt(wX)>>) >>

DefsAddPattern ==
  \E n \in 1..Len(PatternNames), i \in 1..Len(PatternSources) :
    AddPattern(PatternNames[n], PatternSources[i])
DefsAddTemplate ==
  \E n \in 1..Len(TemplateNames), i \in 1..Len(TemplateSources) :
    AddTemplate(TemplateNames[n], TemplateSources[i])
DefsParse == \E i \in 1..Len(DefTexts) : Parse(DefTexts[i], NoneInt, "False")

InitDefs == Construct(NoneInt, NoneBool)
NextDefs == DefsAddPattern \/ DefsAddTemplate \/ DefsParse
SpecDefs == InitDefs /\ [][NextDefs]_vars

\* the name a definition is known by: the given name, with its sigil put in
\* front if it does not start with it
Sigiled(sigil, name) ==
  IF name # << >> /\ name[1] = sigil THEN StrJoin(name) ELSE sigil \o StrJoin(name)

\* the statements "@name =" and "$name =" of a definitions block
StmtStarts(defs) ==
  {p \in 1..Len(defs) : /\ defs[p].k \in {"pattern", "template"}
                        /\ (p = 1 \/ defs[p - 1].k = "newline")
                        /\ Tok(defs, p + 1).k = "equals"}
StmtName(defs, p) ==
  Sigiled(IF defs[p].k = "pattern" THEN "@" ELSE "$", defs[p].v)
\* the statement at p defines a name that the registry or an earlier
\* statement of the block has defined
Redefines(defs, p, pats, temps) ==
  \/ StmtName(defs, p) \in (IF defs[p].k = "pattern" THEN DOMAIN pats ELSE DOMAIN temps)
  \/ \E q \in StmtStarts(defs) :
       q < p /\ defs[q].k = defs[p].k /\ StmtName(defs, q) = StmtName(defs, p)
\* the statements before p are parsed without error
RECURSIVE LastNonNewline(_, _)
LastNonNewline(defs, p) ==
  IF p > 0 /\ defs[p].k = "newline" THEN LastNonNewline(defs, p - 1) ELSE p
ParsedUpTo(defs, p, st) ==
  \/ p = 1
  \/ LET q == LastNonNewline(defs, p - 1)
         r == Method("parse_definitions", <<SubSeq(defs, 1, q), 1, st>>)
     IN r.err = NoErr /\ r.pos = q + 1

\* C2: registering a pattern or template under a name that, with its sigil,
\* is already registered for that kind raises DefinitionAlreadyExists and
\* leaves the registered definitions as they were - from add_pattern /
\* add_template and from a statement of a definitions block alike, whether
\* the first definition was external or in-text.
C2_RedefinitionConflicts ==
  [][ calls' = calls + 1 =>
        /\ (call'.op = "add_pattern" /\ Sigiled("@", call'.name) \in DOMAIN patterns) =>
              ret'.err = DefinitionAlreadyExists /\ patterns' = patterns /\ templates' = templates
        /\ (call'.op = "add_template" /\ Sigiled("$", call'.name) \in DOMAIN templates) =>
              ret'.err = DefinitionAlreadyExists /\ patterns' = patterns /\ templates' = templates
        /\ (call'.op = "parse" /\ call'.text.hasDefs
            /\ \E p \in StmtStarts(call'.text.defs) :
                 /\ Redefines(call'.text.defs, p, patterns, templates)
                 /\ ParsedUpTo(call'.text.defs, p, Registry)) =>
              ret'.err = DefinitionAlreadyExists
        /\ \A n \in DOMAIN patterns : n \in DOMAIN patterns' /\ patterns'[n] = patterns[n]
        /\ \A n \in DOMAIN templates : n \in DOMAIN templates' /\ templates'[n] = templates[n]
    ]_vars

\* C2 witness: an external registration under the other spelling of a name
\* that an in-text definition registered is refused
C2_Witness ==
  /\ call.op = "add_pattern"
  /\ call.name = nA
  /\ ret.err = DefinitionAlreadyExists
  /\ "@a" \in DOMAIN patterns
  /\ patterns["@a"] = ("color" :> JAtom("yellow"))

\* the references of a token sequence: @name where a modifier is read,
\* $name where a standalone element is read
PatternRefs(toks) ==
  {p \in 1..Len(toks) : toks[p].k = "pattern" /\ Tok(toks, p + 1).k # "equals"}
TemplateRefs(toks) ==
  {p \in 1..Len(toks) : toks[p].k = "template" /\ Tok(toks, p + 1).k # "equals"}
RefersToUnknown(toks) ==
  \/ \E p \in PatternRefs(toks) : StrJoin(toks[p].v) \notin DOMAIN patterns
  \/ \E p \in TemplateRefs(toks) : StrJoin(toks[p].v) \notin DOMAIN templates

\* C3: a call that reads a reference to a pattern or template that is not
\* registered raises the unknown-definition error and returns nothing.  (The
\* texts of this specification are well formed up to their first unknown
\* reference; a call refused for a redefinition before it reads anything is
\* left out.)
C3_UnknownReferenceRaises ==
  (/\ call.op \in {"parse", "add_pattern", "add_template"}
   /\ ret.err # DefinitionAlreadyExists
   /\ RefersToUnknown(call.toks \o call.text.defs \o call.text.body))
     => ErrorKind(ret.err) = "UnknownDefinition"

\* ------------------------------------------------------------------------
\* The defaults of parse: indent and json_dump
\* ------------------------------------------------------------------------
IndentOptions == <<NoneInt, 0, 2, 4>>
DumpOptions == <<NoneBool, "True", "False">>
DefaultsTexts ==
  << Body(<<Txt(wHello)>>),
     Body(Span(<<Txt(wAll)>>, <<Bold>>)) >>

DefaultsSetDefaults ==
  \E i \in 1..Len(IndentOptions), j \in 1..Len(DumpOptions) :
    SetDefaults(IndentOptions[i], DumpOptions[j])
DefaultsParse ==
  \E t \in 1..Len(DefaultsTexts), i \in 1..Len(IndentOptions), j \in 1..Len(DumpOptions) :
    Parse(DefaultsTexts[t], IndentOptions[i], DumpOptions[j])

InitDefaults ==
  \E i \in 1..Len(IndentOptions), j \in 1..Len(DumpOptions) :
    Construct(IndentOptions[i], DumpOptions[j])
NextDefaults == DefaultsSetDefaults \/ DefaultsParse
SpecDefaults == InitDefaults /\ [][NextDefaults]_vars

\* C5: a parse() that succeeds and is given a json_dump serializes its
\* output iff that json_dump is true; one that is given none, after
\* set_defaults has been given a json_dump, serializes iff the json_dump last
\* given to set_defaults is true.  When it serializes, it does so with the
\* indent it was given, or, given none, with the indent last given to
\* set_defaults.
C5_DefaultsPersistAndYield ==
  (call.op = "parse" /\ ret.err = NoErr) =>
     /\ call.json_dump # NoneBool => ret.serialized = (call.json_dump = "True")
     /\ (call.json_dump = NoneBool /\ requested.json_dump # NoneBool) =>
           ret.serialized = (requested.json_dump = "True")
     /\ (ret.serialized /\ call.indent # NoneInt) => ret.indent = call.indent
     /\ (ret.serialized /\ call.indent = NoneInt /\ requested.indent # NoneInt) =>
           ret.indent = requested.indent

\* ------------------------------------------------------------------------
\* Modifier lists: explicit modifiers and pattern references, merged
\* ------------------------------------------------------------------------
\* the longest modifier list explored
MaxMods == 2

MergeItems ==
  << <<Bold>>,
     <<Bold, Eq, False>>,
     <<Color("red")>>,
     <<T("kw_color", "color"), Eq, Color("blue")>>,
     <<Italic>>,
     <<PatternTok(nA)>>,
     <<PatternTok(nB)>> >>
MergePatternNames == << nA, nB >>
MergePatternSources ==
  << Parens(<<Color("red"), Comma, Bold>>),
     Parens(<<Bold, Eq, False, Comma, Italic, Comma, Color("green")>>) >>

\* the items chosen by f, with commas between them
RECURSIVE JoinItems(_, _)
JoinItems(f, n) ==
  IF n = 0 THEN << >>
  ELSE IF n = 1 THEN MergeItems[f[1]]
  ELSE JoinItems(f, n - 1) \o <<Comma>> \o MergeItems[f[n]]

MergeAddPattern ==
  \E n \in 1..Len(MergePatternNames), i \in 1..Len(MergePatternSources) :
    AddPattern(MergePatternNames[n], MergePatternSources[i])
MergeParse ==
  \E n \in 1..MaxMods :
    \E f \in [1..n -> 1..Len(MergeItems)] :
      Parse(Body(Span(<<Txt(wX)>>, JoinItems(f, n))), NoneInt, "False")

InitMerge == Construct(NoneInt, NoneBool)
NextMerge == MergeAddPattern \/ MergeParse
SpecMerge == InitMerge /\ [][NextMerge]_vars

\* the modifier list of a text [x](list), and its items
ListOf(text) == SubSeq(text.body, 5, Len(text.body) - 1)
RECURSIVE SplitAtCommas(_, _, _)
SplitAtCommas(toks, item, items) ==
  IF toks = << >> THEN Append(items, item)
  ELSE IF Head(toks).k = "comma" THEN SplitAtCommas(Tail(toks), << >>, Append(items, item))
  ELSE SplitAtCommas(Tail(toks), Append(item, Head(toks)), items)
\* the attributes that one item of a list sets when it stands alone
ItemWrites(item) == Method("parse_modifiers", <<item, 1, Env(Registry, FALSE)>>).val
\* the attributes emitted for the span of the last parse
Emitted == ret.out.v[2].v

\* C6: when [x](m1, ..., mn) is parsed, explicit modifiers and @pattern
\* references mixed, every attribute some mi sets is emitted, with the value
\* set by the last mi that sets it, and nothing else is emitted but the text.
C6_LaterModifierWins ==
  (call.op = "parse" /\ ret.err = NoErr) =>
     LET items == SplitAtCommas(ListOf(call.text), << >>, << >>)
         keys == UNION {DOMAIN ItemWrites(items[i]) : i \in 1..Len(items)}
     IN /\ DOMAIN Emitted = keys \cup {"text"}
        /\ \A k \in keys :
             \E i \in 1..Len(items) :
               /\ k \in DOMAIN ItemWrites(items[i])
               /\ \A j \in (i + 1)..Len(items) : k \notin DOMAIN ItemWrites(items[j])
               /\ Emitted[k] = ItemWrites(items[i])[k]

\* C6 witness: [x](@a, bold=false) with @a = (red, bold) keeps the colour of
\* the pattern and the later value of bold
C6_Witness ==
  /\ call.op = "parse"
  /\ ret.err = NoErr
  /\ Len(ListOf(call.text)) = 5
  /\ ListOf(call.text)[1].k = "pattern"
  /\ StrJoin(ListOf(call.text)[1].v) = "@a"
  /\ ListOf(call.text)[3].k = "kw_bool"
  /\ ListOf(call.text)[3].v = "bold"
  /\ ListOf(call.text)[5].k = "boolean"
  /\ ListOf(call.text)[5].v = "false"
  /\ "@a" \in DOMAIN patterns
  /\ patterns["@a"] = ("color" :> JAtom("red") @@ "bold" :> JB(TRUE))
  /\ Emitted["bold"] = JB(FALSE)
  /\ Emitted["color"] = JAtom("red")

\* ------------------------------------------------------------------------
\* hover_text blocks and the modifiers inside them
\* ------------------------------------------------------------------------
\* the deepest nesting of spans explored inside a hover_text block
MaxDepth == 2

wUrl == <<"h", "t", "t", "p", ":", "/", "/", "a", ".", "b">>
ScopeModifiers ==
  << HoverText(<<Txt(wX)>>),
     <<T("kw_json", "hover_item"), Eq, T("curly", "{"), Str(<<"i", "d">>), T("colon", ":"),
       Str(<<"a">>), T("curly", "}")>>,
     <<T("kw_link", "link"), Eq, Str(<<"a", ".", "b">>)>>,
     <<T("url", wUrl)>>,
     KwString("copy", wX),
     KwString("suggest", wCmd),
     KwString("run", wCmd),
     KwString("insertion", wX),
     <<T("kw_integer", "page"), Eq, T("integer", <<"1">>)>>,
     <<T("kw_color", "color"), Eq, Color("red")>>,
     <<Color("blue")>>,
     <<T("hex_code", "#00ff00")>>,
     KwString("font", wX),
     <<Bold>>,
     <<Italic, Eq, False>> >>

\* [x](mods) inside d further spans
RECURSIVE Nest(_, _)
Nest(mods, d) ==
  IF d = 0 THEN Span(<<Txt(wX)>>, mods) ELSE Span(Nest(mods, d - 1), <<Underlined>>)

\* the places a span is read at: in a hover_text block of the body, in the
\* body itself, in a hover_text block of a pattern of the definitions block
ScopeText(place, mods, d) ==
  IF place = 1 THEN Body(Span(<<Txt(wAll)>>, HoverText(<<Txt(wHello)>> \o Nest(mods, d))))
  ELSE IF place = 2 THEN Body(Nest(mods, d))
  ELSE WithDefs(DefPattern(nA, HoverText(Nest(mods, d))), <<Txt(wX)>>)

ScopeParse ==
  \E place \in 1..3, m \in 1..Len(ScopeModifiers), d \in 0..MaxDepth :
    Parse(ScopeText(place, ScopeModifiers[m], d), NoneInt, "False")

InitScope == Construct(NoneInt, NoneBool)
NextScope == ScopeParse
SpecScope == InitScope /\ [][NextScope]_vars

\* the first hover_text of a token sequence, 0 if it has none; what follows
\* it in the texts of this specification is inside the block
FirstHover(toks) ==
  LET ps == {p \in 1..Len(toks) : toks[p].k = "kw_scope"} IN
  IF ps = {} THEN 0 ELSE CHOOSE p \in ps : \A q \in ps : p <= q
\* hover_text, hover_item, link, a bare url, copy, suggest, run, insertion
\* or page inside the block
ModifierBarredInHover(toks) ==
  \E p \in (FirstHover(toks) + 1)..Len(toks) :
    \/ toks[p].k \in {"kw_scope", "kw_json", "kw_link", "url", "kw_integer"}
    \/ toks[p].k = "kw_string" /\ toks[p].v # "font"

\* C7: a parse() that reads a hover_text block fails with the scope error if
\* one of hover_text, hover_item, link, a bare url, copy, suggest, run,
\* insertion, page stands inside the block, at any depth of spans; with only
\* color, font and boolean modifiers inside it, it succeeds.  (A call refused
\* for a redefinition before the block is read is left out.)
C7_ScopeViolationInHover ==
  LET toks == call.text.defs \o call.text.body IN
  (call.op = "parse" /\ FirstHover(toks) # 0 /\ ret.err # DefinitionAlreadyExists) =>
     IF ModifierBarredInHover(toks)
     THEN ErrorKind(ret.err) = "ScopeViolation"
     ELSE ret.err = NoErr

\* ------------------------------------------------------------------------
\* Template invocation: {$t, "a0", ..., "ak"}
\* ------------------------------------------------------------------------
\* the largest number of arguments explored
MaxArgs == 11

\* argument i is the i-th letter
Letters == <<"a", "b", "c", "d", "e", "f", "g", "h", "i", "j", "k", "l", "m">>
LetterArgs(n) == [i \in 1..n |-> <<Letters[i]>>]

TemplateBodies ==
  << <<"H", "i", " ", "%", "0">>,
     <<"%", "1", "+", "%", "0", "+", "%", "1">>,
     <<"%", "2", "!">>,
     <<"%", "1", "-", "%", "1", "0">> >>

TemplateAddTemplate ==
  \E b \in 1..Len(TemplateBodies) : AddTemplate(nT, <<Txt(TemplateBodies[b])>>)
TemplateParse ==
  \E n \in 0..MaxArgs : Parse(Body(Invoke(nT, LetterArgs(n))), NoneInt, "False")

InitTemplate == Construct(NoneInt, NoneBool)
NextTemplate == TemplateAddTemplate \/ TemplateParse
SpecTemplate == InitTemplate /\ [][NextTemplate]_vars

\* the arguments of the invocation {$t, "a0", ...} that is the body of a text
ArgsOf(text) == [i \in 1..((Len(text.body) - 3) \div 2) |-> text.body[2 + 2 * i].v]
\* the text of the registered template $t and of the fragment emitted for it
TemplateText == templates["$t"][2].v["text"].v
FragmentText == ret.out.v[2].v[2].v["text"].v

\* the digits s starts with
RECURSIVE LeadingDigits(_)
LeadingDigits(s) ==
  IF s # << >> /\ IsDigit(Head(s)) THEN <<Head(s)>> \o LeadingDigits(Tail(s)) ELSE << >>
\* s with every placeholder %i, i written with all its digits, replaced by
\* argument i if there is one and left as it is if there is none
RECURSIVE Substituted(_, _)
Substituted(s, args) ==
  IF s = << >> THEN << >>
  ELSE LET ds == LeadingDigits(Tail(s))
           i == StrToInt(ds, 0)
       IN IF Head(s) = "%" /\ ds # << >>
          THEN (IF i < Len(args) THEN args[i + 1] ELSE <<"%">> \o ds)
                 \o Substituted(SubSeq(s, 2 + Len(ds), Len(s)), args)
          ELSE <<Head(s)>> \o Substituted(Tail(s), args)

\* C9: invoking a registered template with arguments a0..ak succeeds, whatever
\* the number of arguments, and emits the template with every %i, i <= k,
\* replaced by ai and every other placeholder left verbatim.
C9_PlaceholdersReplaced ==
  (call.op = "parse" /\ "$t" \in DOMAIN templates) =>
     /\ ret.err = NoErr
     /\ FragmentText = Substituted(TemplateText, ArgsOf(call.text))

\* C10: a template with %1 and %10, "%1-%10", invoked with at least 11
\* arguments emits argument 1, "-", argument 10.
C10_NoPrefixCollision ==
  (/\ call.op = "parse"
   /\ "$t" \in DOMAIN templates
   /\ TemplateText = <<"%", "1", "-", "%", "1", "0">>
   /\ Len(ArgsOf(call.text)) >= 11) =>
     /\ ret.err = NoErr
     /\ FragmentText = ArgsOf(call.text)[2] \o <<"-">> \o ArgsOf(call.text)[11]

\* ------------------------------------------------------------------------
\* Standalone elements {...}(modifiers) and modified spans [body](modifiers)
\* ------------------------------------------------------------------------
Sel == T("selector", <<"@", "s">>)
KwSa(w) == T("kw_standalone", w)
wK == <<"k">>
wDash == <<" ", "-", " ">>

\* what stands between the braces of an element
Elements ==
  << <<Sel>>,
     <<KwSa("translate"), Eq, Str(wK)>>,
     <<KwSa("nbt"), Eq, Str(wK), Comma, KwSa("block"), Eq, Str(wX), Comma, KwSa("interpret")>>,
     <<Sel, Comma, KwSa("translate"), Eq, Str(wK)>>,
     <<KwSa("sep"), Eq, Str(wDash)>>,
     <<KwSa("key"), Eq, T("keybind", "jump"), Comma, KwSa("separator"), Eq, Str(wDash)>>,
     <<TemplateTok(nT)>>,
     <<KwSa("selector")>>,
     <<KwSa("interpret"), Eq, False, Comma, KwSa("interpret")>>,
     <<Sel, Comma, KwSa("score"), Eq, Str(wK), T("arrow", "->"), Str(wX)>> >>
\* the modifier lists that follow an element or a span; the first is for none
ElementMods ==
  << << >>,
     <<Bold>>,
     <<Color("red"), Comma, Italic, Eq, False>>,
     KwString("run", wCmd) >>

ElementText(e, m) ==
  Body(<<LBrace>> \o Elements[e] \o <<RBrace>>
       \o (IF m = 1 THEN << >> ELSE Parens(ElementMods[m])))

\* the bodies of the spans: a text, nothing, several nodes, an element first,
\* a template first, a span first
SpanBodies ==
  << <<Txt(wX)>>,
     << >>,
     <<Txt(wAll), LBrace, Sel, RBrace, Txt(wX)>>,
     <<LBrace, Sel, RBrace, Txt(wX)>>,
     Invoke(nT, << >>),
     Span(<<Txt(wAll)>>, <<Italic>>) \o <<Txt(wX)>>,
     <<Esc("["), Txt(wX)>> >>

ElementsAddTemplate == AddTemplate(nT, <<Txt(wHello)>>)
ElementsParse ==
  \E e \in 1..Len(Elements), m \in 1..Len(ElementMods) :
    Parse(ElementText(e, m), NoneInt, "False")
ElementsParseSpan ==
  \E b \in 1..Len(SpanBodies), m \in 2..Len(ElementMods) :
    Parse(Body(Span(SpanBodies[b], ElementMods[m])), NoneInt, "False")

InitElements == Construct(NoneInt, NoneBool)
NextElements == ElementsAddTemplate \/ ElementsParse \/ ElementsParseSpan
SpecElements == InitElements /\ [][NextElements]_vars

\* the parts of the text {element}(modifiers) of a call
IsElementText(text) == text.body # << >> /\ Is(text.body[1], "brace", "{")
ElementClose(body) ==
  CHOOSE p \in 1..Len(body) :
    Is(body[p], "brace", "}") /\ \A q \in 1..(p - 1) : ~Is(body[q], "brace", "}")
ElementContents(body) == SubSeq(body, 2, ElementClose(body) - 1)
ElementHasMods(body) == Len(body) > ElementClose(body)
ElementModsOf(body) == SubSeq(body, ElementClose(body) + 2, Len(body) - 1)
IsInvocation(body) == body[2].k = "template"
\* the fields the element sets, the attributes its modifier list sets
FieldsOf(body) == Method("parse_non_template_standalone", <<ElementContents(body), 1>>).val
ModsOf(mods) == Method("parse_modifiers", <<mods, 1, Env(Registry, FALSE)>>).val

MaxPieces == 3

\* a text, an escape of the special set, an escape outside it, a span
Pieces ==
  << <<Txt(wX)>>,
     <<Esc("[")>>,
     <<Esc("~")>>,
     Span(<<Txt(wAll)>>, <<Bold>>) >>

\* the pieces chosen by f, one after the other
RECURSIVE JoinPieces(_, _)
JoinPieces(f, n) == IF n = 0 THEN << >> ELSE JoinPieces(f, n - 1) \o Pieces[f[n]]

\* the lexer yields a maximal run of plain text as one token
NoTwoTexts(f, n) == \A i \in 1..(n - 1) : ~(f[i] = 1 /\ f[i + 1] = 1)

\* the places a run is read at: 1 the top level, 2 a hover_text block
RunsText(place, toks) ==
  IF place = 1 THEN Body(toks) ELSE Body(Span(<<Txt(wAll)>>, HoverText(toks)))

RunsTemplateSources ==
  << <<Txt(wX), Esc("]"), Txt(wAll)>>,
     <<Esc("~"), Esc("{")>> \o Span(<<Txt(wAll)>>, <<Bold>>) \o <<Esc("}"), Txt(wX)>>,
     Span(<<Txt(wAll)>>, <<Bold>>) \o Span(<<Txt(wAll)>>, <<Bold>>) >>

\* plain texts: nothing, a word, blanks before and after a word, only a blank
PlainTexts ==
  << << >>,
     <<Txt(wHello)>>,
     <<Txt(<<" ">> \o wHello)>>,
     <<Txt(wHello \o <<" ">>)>>,
     <<Txt(<<" ", "a", " ", "b", "\n">>)>>,
     <<Txt(<<" ">>)>> >>

RunsAddTemplate ==
  \E s \in 1..Len(RunsTemplateSources) : AddTemplate(nT, RunsTemplateSources[s])
RunsParse ==
  \E n \in 0..MaxPieces, place \in 1..2 :
    \E f \in [1..n -> 1..Len(Pieces)] :
      NoTwoTexts(f, n) /\ Parse(RunsText(place, JoinPieces(f, n)), NoneInt, "False")
RunsParseInvoke == Parse(Body(<<Txt(wX)>> \o Invoke(nT, << >>) \o <<Txt(wX)>>), NoneInt, "False")
RunsParsePlain == \E t \in 1..Len(PlainTexts) : Parse(Body(PlainTexts[t]), NoneInt, "False")

InitRuns == Construct(NoneInt, NoneBool)
NextRuns == RunsAddTemplate \/ RunsParse \/ RunsParseInvoke \/ RunsParsePlain
SpecRuns == InitRuns /\ [][NextRuns]_vars

\* the run a call reads and the output sequence it yields for it
IsHoverRun(text) == Len(text.body) >= 9 /\ text.body[5].k = "kw_scope"
IsInvokeRun(text) == \E p \in 1..Len(text.body) : text.body[p].k = "template"
RunRead ==
  IF call.op = "add_template" THEN call.toks
  ELSE IF IsHoverRun(call.text) THEN SubSeq(call.text.body, 8, Len(call.text.body) - 2)
  ELSE call.text.body
RunOutput ==
  IF call.op = "add_template" THEN ret.out.v
  ELSE IF IsHoverRun(call.text) THEN HoverContents(ret.out.v[2])
  ELSE ret.out.v

\* the characters a literal token stands for
LiteralOf(tok) ==
  IF tok.k = "text" THEN tok.v
  ELSE IF tok.v[2] \in SpecialEscapes THEN <<tok.v[2]>> ELSE tok.v
\* the entries a run stands for: lit is the literal text read since the last
\* entry; a span of the runs is [All](bold), six tokens long
RECURSIVE Coalesced(_, _, _)
Coalesced(toks, lit, entries) ==
  LET flushed == IF lit = << >> THEN entries ELSE Append(entries, JO("text" :> JS(lit))) IN
  IF toks = << >> THEN flushed
  ELSE IF Head(toks).k \in {"text", "escape"}
       THEN Coalesced(Tail(toks), lit \o LiteralOf(Head(toks)), entries)
       ELSE Coalesced(SubSeq(toks, 7, Len(toks)), << >>,
                      Append(flushed, JO("text" :> JS(wAll) @@ "bold" :> JB(TRUE))))

\* the text begins or ends with a blank
BlankEdged(toks) ==
  /\ toks # << >>
  /\ \/ Head(toks).k = "text" /\ Head(toks).v[1] \in Whitespace
     \/ toks[Len(toks)].k = "text" /\ toks[Len(toks)].v[Len(toks[Len(toks)].v)] \in Whitespace

IsLiteralEntry(e) == e.t = "obj" /\ DOMAIN e.v = {"text"}
NoLiteralNeighbours(out) ==
  \A k \in 2..(Len(out) - 1) : ~(IsLiteralEntry(out[k]) /\ IsLiteralEntry(out[k + 1]))

\* C12: in the output of parse() - at the top level, in the contents of a
\* hover_text block and in a template fragment, as registered and as emitted
\* for an invocation - no two neighbouring entries are both literal text:
\* the literal pieces between two spans are one {text} entry, their texts
\* concatenated in source order, and the spans keep their places.  (A text
\* that begins or ends with a blank is left out: what parse() makes of the
\* blanks is not the matter here.)
C12_LiteralsCoalesce ==
  (/\ call.op \in {"parse", "add_template"}
   /\ ret.err = NoErr
   /\ ~BlankEdged(call.text.body)) =>
     IF call.op = "parse" /\ IsInvokeRun(call.text)
     THEN /\ Len(ret.out.v) = 4
          /\ ret.out.v[3] = JA(templates["$t"])
          /\ NoLiteralNeighbours(ret.out.v[3].v)
          /\ NoLiteralNeighbours(ret.out.v)
     ELSE /\ Tail(RunOutput) = Coalesced(RunRead, << >>, << >>)
          /\ NoLiteralNeighbours(RunOutput)

\* C12 witness: \[x[All](bold) in a hover_text block came out as two entries
C12_Witness ==
  /\ ParseReturned
  /\ IsHoverRun(call.text)
  /\ Len(RunRead) = 8
  /\ RunRead[1].k = "escape"
  /\ RunRead[2].k = "text"
  /\ Len(RunOutput) = 3
  /\ RunOutput[2] = JO("text" :> JS(<<"[", "x">>))
  /\ RunOutput[3] = JO("text" :> JS(wAll) @@ "bold" :> JB(TRUE))

\* a plain text: no token but at most one run of text
IsPlainText(text) ==
  /\ ~text.hasDefs
  /\ Len(text.body) <= 1
  /\ \A p \in 1..Len(text.body) : text.body[p].k = "text"
PlainChars(text) == IF text.body = << >> THEN << >> ELSE text.body[1].v

\* C13: parse(text) of a plain text, with no parent set, returns exactly
\* ["", {"text": text}], the text as it was given - the empty text and a text
\* with blanks at its ends included.
C13_PlainTextVerbatim ==
  (call.op = "parse" /\ IsPlainText(call.text)) =>
     /\ ret.err = NoErr
     /\ ret.out.v = <<EmptyStr, JO("text" :> JS(PlainChars(call.text)))>>

\* ------------------------------------------------------------------------
\* Errors: what parse() raises to its caller
\* ------------------------------------------------------------------------
\* the exception raised inside a parse(text) called on the registry st: by
\* the definitions block, else by the markup body, else none
RaisedInside(text, st) ==
  LET pp == Method("pre_process", <<text, st>>) IN
  IF pp.err # NoErr THEN pp.err
  ELSE Method("internal_parse", <<pp.val, 1, Env(pp.st, FALSE)>>).err

\* C14: an InvalidSyntax raised inside parse(), by the markup body or by the
\* definitions block, reaches the caller as an InvalidSyntax with the same
\* message, decorated with the source context; an exception of another kind
\* (DefinitionAlreadyExists) reaches the caller as it was raised.
C14_SyntaxErrorsDecorated ==
  [][ (call'.op = "parse" /\ calls' = calls + 1) =>
        /\ RaisedInside(call'.text, Registry).cls = "InvalidSyntax" =>
             /\ ret'.err.cls = "InvalidSyntax"
             /\ ret'.err.msg = RaisedInside(call'.text, Registry).msg
             /\ ret'.err.decorated
        /\ RaisedInside(call'.text, Registry).cls \notin {"none", "InvalidSyntax"} =>
             ret'.err = RaisedInside(call'.text, Registry)
    ]_vars

\* texts with a malformed construct, and well-formed ones beside them
nU == <<"u">>
MalformedTexts ==
  << Body(<<Txt(wX), RBr, Txt(wAll)>>),
     Body(<<Txt(wX), RBrace, Txt(wAll)>>),
     Body(<<Txt(wX), RScope, Txt(wAll)>>),
     Body(<<RBr>>),
     Body(<<LBr, Txt(wX)>>),
     Body(<<Txt(wX), LBrace, Sel>>),
     Body(Span(<<Txt(wX)>>, <<Bold>>)),
     WithDefs(DefPattern(nA, <<Bold>>) \o DefPattern(nB, <<Italic>>), <<Txt(wX)>>),
     WithDefs(DefPattern(nA, <<Bold>>) \o <<NL>> \o DefPattern(nB, <<Italic>>),
              Span(<<Txt(wX)>>, <<PatternTok(nB)>>)),
     WithDefs(DefTemplate(nT, <<Txt(wHello)>>) \o DefTemplate(nU, <<Txt(wX)>>), <<Txt(wX)>>),
     WithDefs(<<ParentTok, Eq>> \o Parens(<<Bold>>) \o DefPattern(nC, <<Italic>>), <<Txt(wX)>>),
     WithDefs(DefPattern(nC, <<Bold>>) \o <<NL, NL>> \o DefTemplate(nU, <<Txt(wX)>>),
              <<Txt(wX), RBr>>) >>

MalformedParse == \E i \in 1..Len(MalformedTexts) : Parse(MalformedTexts[i], NoneInt, "False")

InitMalformed == Construct(NoneInt, NoneBool)
NextMalformed == MalformedParse
SpecMalformed == InitMalformed /\ [][NextMalformed]_vars

\* a closing ], } or > of the body with no opening [, { or < before it
UnmatchedCloser(body) ==
  \E p \in 1..Len(body) :
    /\ \/ Is(body[p], "sqrbr", "]") \/ Is(body[p], "brace", "}") \/ Is(body[p], "scope", ">")
    /\ \A q \in 1..(p - 1) :
         ~(Is(body[q], "sqrbr", "[") \/ Is(body[q], "brace", "{") \/ Is(body[q], "scope", "<"))
\* the definition statements "@name =" and "$name =" of a block, wherever
\* they stand
Statements(defs) ==
  {p \in 1..Len(defs) : defs[p].k \in {"pattern", "template"} /\ Tok(defs, p + 1).k = "equals"}

\* C15: parse() fails when the body has a closing ], } or > that nothing
\* opened, and it does not return successfully unless every definition
\* statement of the definitions block has been registered: nothing of the
\* body and no statement is skipped silently.
C15_NoSilentDegradation ==
  call.op = "parse" =>
     /\ UnmatchedCloser(call.text.body) => ret.err # NoErr
     /\ ret.err = NoErr =>
          \A p \in Statements(call.text.defs) :
            StmtName(call.text.defs, p)
              \in (IF call.text.defs[p].k = "pattern" THEN DOMAIN patterns ELSE DOMAIN templates)

\* ------------------------------------------------------------------------
\* Template fragments and the parent style
\* ------------------------------------------------------------------------
FragmentParentSources ==
  << Parens(<<Italic>>),
     Parens(<<Underlined>>),
     <<NullTok>> >>
FragmentTexts ==
  << Body(<<Txt(wX)>> \o Invoke(nT, << >>)),
     Body(Invoke(nT, << >>)),
     WithDefs(<<ParentTok, Eq>> \o Parens(<<Underlined>>), <<Txt(wX)>> \o Invoke(nT, << >>)),
     WithDefs(<<ParentTok, Eq, NullTok>>, Invoke(nT, << >>)),
     WithDefs(<<ParentTok, Eq>> \o Parens(<<Italic>>) \o <<NL>> \o DefTemplate(nU, <<Txt(wHello)>>)
                \o <<NL, ParentTok, Eq>> \o Parens(<<Underlined>>),
              <<Txt(wX)>> \o Invoke(nU, << >>)),
     WithDefs(<<ParentTok, Eq>> \o Parens(<<Italic>>) \o <<NL>> \o DefTemplate(nU, <<Txt(wHello)>>)
                \o <<NL, ParentTok, Eq, NullTok>>,
              <<Txt(wX)>> \o Invoke(nU, << >>)),
     WithDefs(DefTemplate(nU, <<Txt(wHello)>>) \o <<NL, ParentTok, Eq>> \o Parens(<<Bold>>),
              Invoke(nU, << >>)) >>

FragmentSetParent ==
  \E i \in 1..Len(FragmentParentSources) : SetParent(FragmentParentSources[i])
FragmentAddTemplate == AddTemplate(nT, <<Txt(wHello)>>)
FragmentParse == \E i \in 1..Len(FragmentTexts) : Parse(FragmentTexts[i], NoneInt, "False")

InitFragment == Construct(NoneInt, NoneBool)
NextFragment == FragmentSetParent \/ FragmentAddTemplate \/ FragmentParse
SpecFragment == InitFragment /\ [][NextFragment]_vars

\* the parent in effect where the statement at p of a block is read: what
\* the last PARENT statement before it says, else the parent par of the call
ParentBefore(defs, p, par, st) ==
  LET ps == {q \in 1..(p - 1) : defs[q].k = "parent"} IN
  IF ps = {} THEN par
  ELSE Denoted(defs, (CHOOSE q \in ps : \A r \in ps : r <= q) + 2, st)
\* the last entry of an output, the entry of the invocation that ends the
\* texts of this specification
LastEntry(out) == out[Len(out)]

\* C16: a template is registered as a fragment whose first element is the
\* parent in effect where it is defined (by add_template or by a statement of
\* a definitions block); an invocation is emitted as one nested array, the
\* registered fragment, after the entries of what stands before it; and the
\* first element of the output is the parent in effect for the parse - the
\* one set last, "" when cleared - whatever the root of the fragment.
C16_FragmentKeepsDefinitionParent ==
  [][ calls' = calls + 1 =>
        /\ (call'.op = "add_template" /\ ret'.err = NoErr) =>
              templates'[Sigiled("$", call'.name)][1] = parent
        /\ (call'.op = "parse" /\ ret'.err = NoErr) =>
              /\ ret'.out.v[1] =
                   ParentBefore(call'.text.defs, Len(call'.text.defs) + 1, parent, Registry)
              /\ \A p \in Statements(call'.text.defs) :
                   templates'[StmtName(call'.text.defs, p)][1] =
                     ParentBefore(call'.text.defs, p, parent, Registry)
              /\ Len(ret'.out.v) = Len(call'.text.body) - 1
              /\ LastEntry(ret'.out.v).t = "arr"
              /\ LastEntry(ret'.out.v).v =
                   templates'[StrJoin(call'.text.body[Len(call'.text.body) - 1].v)]
    ]_vars

\* C16 witness: an output with root underlined holds a fragment with root
\* italic
C16_Witness ==
  /\ ParseReturned
  /\ Root = JO("underlined" :> JB(TRUE))
  /\ LastEntry(ret.out.v).t = "arr"
  /\ LastEntry(ret.out.v).v = <<JO("italic" :> JB(TRUE)), JO("text" :> JS(wHello))>>

\* ------------------------------------------------------------------------
\* The fields of a standalone element
\* ------------------------------------------------------------------------
\* the fields that name what the element shows, apart from the selector
KeywordPrimary ==
  {"translate", "with", "keybind", "nbt", "block", "entity", "storage", "score"}

\* C17 as claimed: the entry of an element that parses is a template
\* fragment, or holds a selector, or holds keyword-driven primary fields -
\* never a selector together with keyword-driven primary fields.
C17_OnePrimaryVariant ==
  (ParseReturned /\ IsElementText(call.text)) =>
     \/ ret.out.v[2].t = "arr"
     \/ ~("selector" \in DOMAIN ret.out.v[2].v
          /\ DOMAIN ret.out.v[2].v \cap KeywordPrimary # {})

\* the key that one item of the comma chain of an element writes
ItemKeys(item) ==
  IF item[1].k = "selector" THEN {"selector"}
  ELSE IF item[1].v \in {"sep", "separator"} THEN {"separator"}
  ELSE IF item[1].v = "key" THEN {"keybind"}
  ELSE IF item[1].v = "selector" THEN {}
  ELSE {item[1].v}
ItemFields(item) == Method("parse_non_template_standalone", <<item, 1>>).val

\* C17 amended: an element without modifiers parses; the entry of a template
\* invocation is a nested array and nothing else; the entry of any other
\* element is a map with one field for each item of its comma chain (the
\* keyword selector writes none), the last item that writes a key giving its
\* value - so that a selector and keyword-driven fields stand together when
\* they are chained, as in {@s, translate="k"}.
C17_OneFieldPerItem ==
  (/\ call.op = "parse"
   /\ IsElementText(call.text)
   /\ ~ElementHasMods(call.text.body)
   /\ IsInvocation(call.text.body) => StrJoin(call.text.body[2].v) \in DOMAIN templates) =>
     /\ ret.err = NoErr
     /\ Len(ret.out.v) = 2
     /\ IF IsInvocation(call.text.body)
        THEN ret.out.v[2] = JA(templates[StrJoin(call.text.body[2].v)])
        ELSE LET items == SplitAtCommas(ElementContents(call.text.body), << >>, << >>)
                 entry == ret.out.v[2]
             IN /\ entry.t = "obj"
                /\ DOMAIN entry.v = UNION {ItemKeys(items[i]) : i \in 1..Len(items)}
                /\ \A k \in DOMAIN entry.v :
                     \E i \in 1..Len(items) :
                       /\ k \in ItemKeys(items[i])
                       /\ \A j \in (i + 1)..Len(items) : k \notin ItemKeys(items[j])
                       /\ entry.v[k] = ItemFields(items[i])[k]

\* C17 witness: {@s, translate="k"} came out with both fields
C17_Witness ==
  /\ ParseReturned
  /\ IsElementText(call.text)
  /\ ~ElementHasMods(call.text.body)
  /\ ret.out.v[2] = JO("selector" :> JS(<<"@", "s">>) @@ "translate" :> JS(wK))

\* the parts of the text [body](modifiers) of a call
IsSpanText(text) == text.body # << >> /\ Is(text.body[1], "sqrbr", "[")
SpanClose(body) ==
  CHOOSE p \in 1..Len(body) :
    Is(body[p], "sqrbr", "]") /\ \A q \in (p + 1)..Len(body) : ~Is(body[q], "sqrbr", "]")
SpanBodyOf(body) == SubSeq(body, 2, SpanClose(body) - 1)
SpanModsOf(body) == SubSeq(body, SpanClose(body) + 2, Len(body) - 1)
\* the body of the span as internal_parse normalizes it
NormalizedBody(body) == Method("internal_parse", <<SpanBodyOf(body), 1, Env(Registry, FALSE)>>)
HasText(entry) == entry.t = "obj" /\ "text" \in DOMAIN entry.v

\* C18: when the body and the modifier list of [body](modifiers) parse -
\* the body empty, of several nodes, beginning with an element, a template
\* or a span included - parse() returns one entry for the span: text and the
\* attributes of the modifiers, nothing else; the text is the text of the
\* first node of the body when that node has one.
C18_SpanTextOfFirstNode ==
  (/\ call.op = "parse"
   /\ IsSpanText(call.text)
   /\ NormalizedBody(call.text.body).err = NoErr) =>
     LET first == NormalizedBody(call.text.body).val
         mods == ModsOf(SpanModsOf(call.text.body))
     IN /\ ret.err = NoErr
        /\ Len(ret.out.v) = 2
        /\ ret.out.v[2].t = "obj"
        /\ DOMAIN ret.out.v[2].v = {"text"} \cup DOMAIN mods
        /\ \A k \in DOMAIN mods : ret.out.v[2].v[k] = mods[k]
        /\ (Len(first) >= 2 /\ HasText(first[2])) =>
              ret.out.v[2].v["text"] = first[2].v["text"]

\* ------------------------------------------------------------------------
\* JSON literals: hover_item=<json> and with=<json>
\* ------------------------------------------------------------------------
\* the deepest nesting of arrays and objects explored
MaxNest == 2

LCurly == T("curly", "{")
RCurly == T("curly", "}")
LBracket == T("bracket", "[")
RBracket == T("bracket", "]")
Colon == T("colon", ":")
Num(digits) == T("number", digits)

\* literals that are not nested: true, false, numbers, strings (the last one
\* is "q\"" with an escaped quote), the empty array and the empty object
JsonLeaves ==
  << <<True>>,
     <<False>>,
     <<Num(<<"7">>)>>,
     <<Num(<<"4", "2">>)>>,
     <<Str(<<"a">>)>>,
     <<Str(<<"q", "\\", "\"">>)>>,
     <<LBracket, RBracket>>,
     <<LCurly, RCurly>> >>

\* a literal inside d arrays and objects: [literal, true] and
\* {"id": literal, "count": 1}, in turn, kind telling which is the outermost
RECURSIVE JsonNest(_, _, _)
JsonNest(toks, d, kind) ==
  IF d = 0 THEN toks
  ELSE IF kind = 1
       THEN <<LBracket>> \o JsonNest(toks, d - 1, 2) \o <<Comma, True, RBracket>>
       ELSE <<LCurly, Str(<<"id">>), Colon>> \o JsonNest(toks, d - 1, 1)
              \o <<Comma, Str(<<"count">>), Colon, Num(<<"1">>), RCurly>>

\* the places a literal is read at: 1 hover_item of a span, 2 with of an element
JsonText(place, json) ==
  IF place = 1 THEN Body(Span(<<Txt(wX)>>, <<T("kw_json", "hover_item"), Eq>> \o json))
  ELSE Body(<<LBrace, KwSa("with"), Eq>> \o json \o <<RBrace>>)

JsonParse ==
  \E l \in 1..Len(JsonLeaves), d \in 0..MaxNest, kind \in 1..2, place \in 1..2 :
    Parse(JsonText(place, JsonNest(JsonLeaves[l], d, kind)), NoneInt, "False")

InitJson == Construct(NoneInt, NoneBool)
NextJson == JsonParse
SpecJson == InitJson /\ [][NextJson]_vars

\* the literal of the text of a call and the value returned for it
JsonOf(text) ==
  IF Is(text.body[1], "sqrbr", "[") THEN SubSeq(text.body, 7, Len(text.body) - 1)
  ELSE SubSeq(text.body, 4, Len(text.body) - 1)
JsonReturned ==
  IF Is(call.text.body[1], "sqrbr", "[")
  THEN ret.out.v[2].v["hoverEvent"].v["contents"]
  ELSE ret.out.v[2].v["with"]

\* the literal as JSON text: the tokens written one after the other, a
\* string between its quotes
RECURSIVE JsonSource(_)
JsonSource(toks) ==
  IF toks = << >> THEN << >>
  ELSE (IF Head(toks).k = "string" THEN <<"\"">> \o Head(toks).v \o <<"\"">>
        ELSE IF Head(toks).k = "number" THEN Head(toks).v
        ELSE <<Head(toks).v>>)
       \o JsonSource(Tail(toks))

\* C19: the value returned for hover_item=<json> and for with=<json> is the
\* JSON value that the literal denotes (what json.loads returns for its
\* text): true is true and false is false, numbers, strings, arrays and
\* objects are kept, at every depth.
C19_JsonLiteralPreserved ==
  call.op = "parse" =>
     /\ ret.err = NoErr
     /\ JsonReturned = Method("loads", <<JsonSource(JsonOf(call.text))>>).val


\* ------------------------------------------------------------------------
\* References inside hover_text blocks: @pattern and {$template}
\* ------------------------------------------------------------------------
\* the modifiers registered as @a: a click event, a style, a hover event
HoverRefsPatternSources ==
  << Parens(KwString("run", wCmd)),
     Parens(<<Bold>>),
     Parens(HoverText(<<Txt(wX)>>)) >>
\* the bodies registered as $t: a text, a span with a click event, a span
\* with the modifiers of @a
HoverRefsTemplateSources ==
  << <<Txt(wHello)>>,
     Span(<<Txt(wX)>>, KwString("run", wCmd)),
     Span(<<Txt(wX)>>, <<PatternTok(nA)>>) >>
\* what a hover_text block holds: a text, a span with @a, with bold and @a,
\* with @a inside a further span, {$t}, a span with a click event written
\* out, a span with @b
HoverRefsBlocks ==
  << <<Txt(wHello)>>,
     Span(<<Txt(wX)>>, <<PatternTok(nA)>>),
     Span(<<Txt(wX)>>, <<Bold, Comma, PatternTok(nA)>>),
     Nest(<<PatternTok(nA)>>, 1),
     Invoke(nT, << >>),
     <<Txt(wX)>> \o Invoke(nT, << >>),
     Span(<<Txt(wX)>>, KwString("run", wCmd)),
     Span(<<Txt(wX)>>, <<PatternTok(nB)>>) >>
\* the texts: [All](hover_text=<block>), as it is and after a definitions
\* block that defines @b with a click event
HoverRefsText(place, block) ==
  IF place = 1 THEN Body(Span(<<Txt(wAll)>>, HoverText(block)))
  ELSE WithDefs(DefPattern(nB, KwString("suggest", wCmd)),
                Span(<<Txt(wAll)>>, HoverText(block)))

HoverRefsAddPattern ==
  \E i \in 1..Len(HoverRefsPatternSources) : AddPattern(nA, HoverRefsPatternSources[i])
HoverRefsAddTemplate ==
  \E i \in 1..Len(HoverRefsTemplateSources) : AddTemplate(nT, HoverRefsTemplateSources[i])
HoverRefsParse ==
  \E place \in 1..2, b \in 1..Len(HoverRefsBlocks) :
    Parse(HoverRefsText(place, HoverRefsBlocks[b]), NoneInt, "False")

InitHoverRefs == Construct(NoneInt, NoneBool)
NextHoverRefs == HoverRefsAddPattern \/ HoverRefsAddTemplate \/ HoverRefsParse
SpecHoverRefs == InitHoverRefs /\ [][NextHoverRefs]_vars

\* a JSON value holds a clickEvent or a hoverEvent attribute at some depth
RECURSIVE HasEvent(_)
HasEvent(j) ==
  IF j.t = "obj"
  THEN \/ "clickEvent" \in DOMAIN j.v
       \/ "hoverEvent" \in DOMAIN j.v
       \/ \E k \in DOMAIN j.v : HasEvent(j.v[k])
  ELSE IF j.t = "arr" THEN \E i \in 1..Len(j.v) : HasEvent(j.v[i])
  ELSE FALSE

\* no show_text hoverEvent of a JSON value has an event in its contents
RECURSIVE HoverClean(_)
HoverClean(j) ==
  IF j.t = "obj"
  THEN /\ IsShowText(j) => ~HasEvent(j.v["hoverEvent"].v["contents"])
       /\ \A k \in DOMAIN j.v : HoverClean(j.v[k])
  ELSE IF j.t = "arr" THEN \A i \in 1..Len(j.v) : HoverClean(j.v[i])
  ELSE TRUE

\* C20: in the output of every parse() that returns, the contents of a
\* show_text hoverEvent hold no clickEvent and no hoverEvent at any depth,
\* whether the modifiers in the block are written out, come from an @pattern
\* or the content comes from a {$template}.
C20_HoverContentsEventFree ==
  ParseReturned => HoverClean(ret.out)


\* ------------------------------------------------------------------------
\* Failures of parse(): what they leave behind
\* ------------------------------------------------------------------------
\* C21: a parse() that fails on a text without a PARENT statement leaves the
\* parent as it was before the call, wherever the error was raised - in the
\* body or inside a hover_text block, where the parent is set aside.
C21_FailedParseKeepsParent ==
  [][ (/\ call'.op = "parse"
       /\ calls' = calls + 1
       /\ ret'.err # NoErr
       /\ LastParentStmt(call'.text.defs) = 0) => parent' = parent
    ]_vars


\* texts whose parse() fails after the definitions block has been read in
\* part or in whole, and texts beside them that fail before anything is
\* registered, that fail without a block, and that succeed
AbortTexts ==
  << WithDefs(DefPattern(nB, <<Italic>>) \o <<NL>> \o DefPattern(nB, <<Color("red")>>),
              <<Txt(wX)>>),
     WithDefs(DefPattern(nB, <<Italic>>) \o <<NL>> \o DefPattern(nC, <<PatternTok(nZ)>>),
              <<Txt(wX)>>),
     WithDefs(DefPattern(nB, <<Italic>>) \o <<NL, TemplateTok(nU), Eq, LBrace, Txt(wHello), RBr, NL>>
                \o DefPattern(nC, <<Bold>>),
              <<Txt(wX)>>),
     WithDefs(DefPattern(nB, <<Italic>>), <<LBr, Txt(wX)>>),
     WithDefs(DefTemplate(nU, <<Txt(wHello)>>), Span(<<Txt(wX)>>, <<PatternTok(nZ)>>)),
     WithDefs(DefPattern(nA, <<Italic>>) \o <<NL>> \o DefPattern(nC, <<Bold>>), <<Txt(wX)>>),
     WithDefs(<<PatternTok(nB), Eq, LPar, Bold, NL>> \o DefPattern(nC, <<Bold>>), <<Txt(wX)>>),
     WithDefs(DefPattern(nB, <<Italic>>), <<Txt(wX)>>),
     Body(<<LBr, Txt(wX)>>),
     Body(Span(<<Txt(wX)>>, <<PatternTok(nA)>>)),
     Body(<<Txt(wX)>> \o Invoke(nT, << >>)) >>

AbortAddPattern == \E i \in 1..2 : AddPattern(nA, PatternSources[i])
AbortAddTemplate == \E i \in 1..Len(TemplateSources) : AddTemplate(nT, TemplateSources[i])
AbortParse == \E i \in 1..Len(AbortTexts) : Parse(AbortTexts[i], NoneInt, "False")

InitAbort == Construct(NoneInt, NoneBool)
NextAbort == AbortAddPattern \/ AbortAddTemplate \/ AbortParse
SpecAbort == InitAbort /\ [][NextAbort]_vars

\* C22: a parse() that fails leaves the registry as it was before the call:
\* the same patterns and the same templates, nothing of the definitions
\* block of the failed text among them.
C22_FailedParseKeepsRegistry ==
  [][ (call'.op = "parse" /\ calls' = calls + 1 /\ ret'.err # NoErr) =>
        /\ patterns' = patterns
        /\ templates' = templates
    ]_vars


\* ------------------------------------------------------------------------
\* The kinds of failure of parse(), add_pattern and add_template
\* ------------------------------------------------------------------------
wQuoted == <<"a", "\\", "\"", "b">>
KindsPatternSources ==
  << Parens(<<Bold>>),
     <<LPar, Bold>>,
     Parens(<<PatternTok(nZ)>>) >>
KindsTemplateSources ==
  << <<Txt(<<"H", "i", " ", "%", "0">>)>>,
     Span(<< >>, <<Bold>>),
     <<Txt(wX)>> \o Invoke(nZ, << >>) >>
\* an invocation with a quoted argument and one without, spans with an
\* empty body and with an element first in the body, a definitions block
\* with an unknown reference, unknown references, an open span, a click
\* event in a hover_text block, a definition of @a, a plain text
KindsTexts ==
  << Body(Invoke(nT, <<wQuoted>>)),
     Body(Invoke(nT, <<wX>>)),
     Body(Span(<< >>, <<Bold>>)),
     Body(Span(<<LBrace, Sel, RBrace, Txt(wX)>>, <<Bold>>)),
     WithDefs(DefPattern(nB, <<PatternTok(nZ)>>) \o <<NL>> \o DefPattern(nC, <<Bold>>),
              <<Txt(wX)>>),
     Body(Span(<<Txt(wX)>>, <<PatternTok(nZ)>>)),
     Body(<<LBr, Txt(wX)>>),
     Body(Span(<<Txt(wAll)>>, HoverText(Span(<<Txt(wX)>>, KwString("run", wCmd))))),
     WithDefs(DefPattern(nA, <<Italic>>), <<Txt(wX)>>),
     Body(<<Txt(wHello)>>) >>

KindsAddPattern == \E i \in 1..Len(KindsPatternSources) : AddPattern(nA, KindsPatternSources[i])
KindsAddTemplate ==
  \E i \in 1..Len(KindsTemplateSources) : AddTemplate(nT, KindsTemplateSources[i])
KindsParse == \E i \in 1..Len(KindsTexts) : Parse(KindsTexts[i], NoneInt, "False")

InitKinds == Construct(NoneInt, NoneBool)
NextKinds == KindsAddPattern \/ KindsAddTemplate \/ KindsParse
SpecKinds == InitKinds /\ [][NextKinds]_vars

DeclaredKinds == {"SyntaxError", "UnknownDefinition", "DefinitionConflict", "ScopeViolation"}

\* C23: whatever parse(), add_pattern or add_template fails with is one of
\* the declared error kinds: a syntax error, an unknown definition, a
\* definition conflict or a scope violation, never another exception.
C23_OnlyDeclaredErrors ==
  (call.op \in {"parse", "add_pattern", "add_template"} /\ ret.err # NoErr) =>
     ErrorKind(ret.err) \in DeclaredKinds


\* ------------------------------------------------------------------------
\* The same parse() twice in a row
\* ------------------------------------------------------------------------
RepeatParentSources ==
  << Parens(<<Bold, Comma, Color("blue")>>),
     Parens(<<Italic>>) >>
\* texts without a definitions block that return and that fail, texts with a
\* PARENT statement, texts that define @b and $u (no other text defines them)
RepeatTexts ==
  << Body(<<Txt(wSomebody)>>),
     Body(Span(<<Txt(wAll)>>, HoverText(<<Txt(wHello)>>))),
     Body(<<LBr, Txt(wHello)>>),
     Body(Span(<<Txt(wAll)>>, HoverText(Span(<<Txt(wHello)>>, KwString("run", wCmd))))),
     WithDefs(<<ParentTok, Eq>> \o Parens(<<Color("green"), Comma, Underlined>>),
              <<Txt(wSomebody)>>),
     WithDefs(<<ParentTok, Eq>> \o Parens(<<Color("green")>>), <<LBr, Txt(wHello)>>),
     WithDefs(<<ParentTok, Eq, NullTok>>, <<Txt(wSomebody)>>),
     WithDefs(DefPattern(nB, <<Italic>>), Span(<<Txt(wX)>>, <<PatternTok(nB)>>)),
     WithDefs(DefTemplate(nU, <<Txt(wHello)>>), Invoke(nU, << >>)),
     WithDefs(DefPattern(nC, <<PatternTok(nZ)>>) \o <<NL>> \o DefPattern(nA, <<Bold>>),
              <<Txt(wX)>>) >>

RepeatSetParent == \E i \in 1..Len(RepeatParentSources) : SetParent(RepeatParentSources[i])
RepeatParse == \E i \in 1..Len(RepeatTexts) : Parse(RepeatTexts[i], NoneInt, "False")

InitRepeat == Construct(NoneInt, NoneBool)
NextRepeat == RepeatSetParent \/ RepeatParse
SpecRepeat == InitRepeat /\ [][NextRepeat]_vars

SameToks(x, y) ==
  /\ Len(x) = Len(y)
  /\ \A p \in 1..Len(x) : x[p].k = y[p].k /\ x[p].v = y[p].v
SameText(a, b) ==
  a.hasDefs = b.hasDefs /\ SameToks(a.defs, b.defs) /\ SameToks(a.body, b.body)
\* this step is a parse() called right after a parse() of the same text with
\* the same options
ParsedAgain ==
  /\ call.op = "parse"
  /\ call'.op = "parse"
  /\ calls' = calls + 1
  /\ SameText(call.text, call'.text)
  /\ call'.indent = call.indent
  /\ call'.json_dump = call.json_dump

NoDefinitions(text) == \A p \in 1..Len(text.defs) : text.defs[p].k \notin {"pattern", "template"}
\* the block begins with the definition of a pattern or of a template
FirstIsDefinition(text) == text.hasDefs /\ Tok(text.defs, 1).k \in {"pattern", "template"}
\* the name that the first statement of the block defines is registered
FirstIsRegistered(text) ==
  StmtName(text.defs, 1)
    \in (IF text.defs[1].k = "pattern" THEN DOMAIN patterns ELSE DOMAIN templates)
\* the parse() returned, as the root of its output, a parent that was set
\* before it was called
RootSetBefore ==
  /\ ret.err = NoErr
  /\ LastParentStmt(call.text.defs) = 0
  /\ ret.out.v[1].t # "str"

FramePatternSources ==
  << Parens(<<Bold, Comma, Color("blue")>>),
     Parens(KwString("run", wCmd)) >>
FrameTemplateBodies ==
  << <<"H", "i", " ", "%", "0">>,
     <<"%", "0", "-", "%", "1">> >>
\* invocations of $t with no, one and two arguments, references to @a alone,
\* after and before other modifiers, an invocation in a hover_text block
FrameTexts ==
  << Body(Invoke(nT, << >>)),
     Body(Invoke(nT, <<nA>>)),
     Body(Invoke(nT, <<nB>>)),
     Body(Invoke(nT, <<nB, nC>>)),
     Body(Span(<<Txt(wX)>>, <<PatternTok(nA)>>)),
     Body(Span(<<Txt(wX)>>, <<Italic, Comma, PatternTok(nA)>>)),
     Body(Span(<<Txt(wX)>>, <<PatternTok(nA), Comma, Color("red")>>)),
     Body(Span(<<Txt(wAll)>>, HoverText(Invoke(nT, <<nC>>)))),
     Body(Span(<<Txt(wAll)>>, <<PatternTok(nA), Comma>> \o HoverText(Span(<<Txt(wX)>>, <<PatternTok(nA)>>)))) >>

FrameAddPattern == \E i \in 1..Len(FramePatternSources) : AddPattern(nA, FramePatternSources[i])
FrameAddTemplate ==
  \E b \in 1..Len(FrameTemplateBodies) : AddTemplate(nT, <<Txt(FrameTemplateBodies[b])>>)
FrameParse == \E i \in 1..Len(FrameTexts) : Parse(FrameTexts[i], NoneInt, "False")

InitFrame == Construct(NoneInt, NoneBool)
NextFrame == FrameAddPattern \/ FrameAddTemplate \/ FrameParse
SpecFrame == InitFrame /\ [][NextFrame]_vars

\* the body of the text is one invocation {$t, ...}
InvokesT(text) ==
  /\ Len(text.body) >= 3
  /\ Is(text.body[1], "brace", "{")
  /\ text.body[2].k = "template"
  /\ Is(text.body[Len(text.body)], "brace", "}")

\* C25: a parse() that invokes templates and refers to patterns leaves every
\* registered pattern and template as it was, and what it emits for an
\* invocation of $t is the template as it was registered with the
\* arguments of this invocation in it, whatever was invoked before.
C25_ReferencesKeepRegistry ==
  [][ (call'.op = "parse" /\ calls' = calls + 1) =>
        /\ patterns' = patterns
        /\ templates' = templates
        /\ (InvokesT(call'.text) /\ ret'.err = NoErr) =>
             FragmentText' = Substituted(TemplateText, ArgsOf(call'.text))
    ]_vars

\* C25 witness: the third call of an instance is {$t, "b"} and emits "Hi b",
\* the template still "Hi %0", with no pattern registered: $t was
\* registered and a text was parsed before
C25_Witness ==
  /\ call.op = "parse"
  /\ calls = 3
  /\ ~fresh
  /\ patterns = EmptyDict
  /\ "$t" \in DOMAIN templates
  /\ InvokesT(call.text)
  /\ Len(call.text.body) = 5
  /\ ret.err = NoErr
  /\ FragmentText = <<"H", "i", " ", "b">>
  /\ TemplateText = <<"H", "i", " ", "%", "0">>

====
